---- MODULE Spec2Model ----
(***************************************************************************)
(* Offline spectrogram analysis, resampling and colour mapping of the      *)
(* spectrogram demos (Spectrogram2D, Spectrogram3DCanvas,                  *)
(* Spectrogram3DWebGL), modelled at a reduced scale: FFT sizes 2 and 4     *)
(* stand for the powers of two 32..32768, sample rates of 60..140 Hz for   *)
(* 44100 Hz, and sample amplitudes are thousandths (0, 0.001, 1.0).  At    *)
(* this scale the Hann weights and the DFT twiddle factors are rational,   *)
(* so the arithmetic of the analyser is exact.                             *)
(***************************************************************************)
EXTENDS Integers, Sequences, FiniteSets, TLC

VARIABLES
  kind,              \* which renderer class the object is: "2d", "3dcanvas", "webgl"
  decoded,           \* the decoded AudioBuffer handed to loadFullSpectrogram
  audioBuffer,       \* this.audioBuffer: FALSE (null) or TRUE (the decoded buffer)
  analyserNode,      \* this.analyserNode: 0 (null) or the fftSize of the attached node
  currentFFTSize,    \* this.currentFFTSize
  pending,           \* offline renderings in flight: the fftSize each one captured
  spectrogramData,   \* this.spectrogramData: sequence of frames, a frame a sequence of codes
  analysed,          \* one record per computeFFTFromAnalyser call of the installed matrix
  isFullSpectrogram, \* this.isFullSpectrogram
  maxFreqBins,       \* this.maxFreqBins
  spectrogramMin,    \* this.spectrogramMin (webgl)
  spectrogramMax,    \* this.spectrogramMax (webgl)
  textureWidth,      \* this.textureWidth (webgl)
  textureHeight,     \* this.textureHeight (webgl)
  texture,           \* what createSpectrogramTexture uploaded last (webgl)
  canvasWidth,       \* this.canvas.width
  canvasHeight,      \* this.canvas.height
  scaleMode,         \* this.scaleMode: 0 = Log, 1 = Linear, 2 = Mel
  colorMode,         \* this.colorMode
  currentPlayPosition, \* this.currentPlayPosition, in thousandths
  imageData,         \* what drawSpectrogram put on the canvas last
  colorT,            \* the argument t of the last colour lookup, in 1/TUnits
  colorOut,          \* the colour the last lookup returned
  app,               \* which application owns the transport: "webgl" or "threejs"
  contextTime,       \* context.currentTime / ACTX.currentTime, in time units
  player,            \* the fields of the Player object (webgl app)
  threeApp,          \* the transport variables of main.ts (three.js app)
  loads,             \* decodings in flight: one record per load that awaits its buffer
  lastOp,            \* the transport operation that ran last, with its argument
  scaleT,            \* the arguments <<n1, n2>> of the last scale lookups, t = n / ScaleDen
  scaleOut,          \* what the last scale lookups returned
  analyserView,      \* the live view of the webgl app: its frame buffer and texture
  animation,         \* the camera animation of the webgl app, its mesh and its frame callbacks
  renderLoop,        \* the render loop of the webgl app: isRendering and the draw callbacks
  threeMesh          \* the mesh of main.ts: the displacement buffer heights and the scale

vars == <<kind, decoded, audioBuffer, analyserNode, currentFFTSize, pending,
          spectrogramData, analysed, isFullSpectrogram, maxFreqBins,
          spectrogramMin, spectrogramMax, textureWidth, textureHeight, texture,
          canvasWidth, canvasHeight, scaleMode, colorMode, currentPlayPosition,
          imageData, colorT, colorOut,
          app, contextTime, player, threeApp, loads, lastOp, scaleT, scaleOut,
          analyserView, animation, renderLoop, threeMesh>>

buildVars == <<spectrogramData, analysed, isFullSpectrogram, maxFreqBins,
               spectrogramMin, spectrogramMax, textureWidth, textureHeight, texture>>
canvasVars == <<canvasWidth, canvasHeight, scaleMode, imageData>>
colorVars == <<colorMode, colorT, colorOut>>
transportVars == <<app, contextTime, player, threeApp, loads, lastOp>>
scaleVars == <<scaleT, scaleOut>>
liveVars == <<analyserView, animation, renderLoop, threeMesh>>

-----------------------------------------------------------------------------
(* Bounds of the model *)

MaxSamples == 5     \* longest sample buffer
MaxPending == 1     \* offline renderings in flight at once
MaxWidth == 3       \* widest canvas
MaxHeight == 3      \* tallest canvas
minTextureSize == 2 \* stands for the texture floor 256 of Spectrogram3DWebGL
maxTextureSize == 3 \* stands for the texture cap 1024 of Spectrogram3DWebGL

FFTSizes == {2, 4}
SampleRates == {60, 90, 100, 140}
Kinds == {"2d", "3dcanvas", "webgl"}
CanvasKinds == {"2d", "3dcanvas"}

(* Program constants *)

TargetFrameRate == 30   \* chunkSize = ceil(sampleRate / 30)
FloorDb == -100         \* dB of a zero magnitude, and the bottom of the dB window
TopDb2D == 0            \* top of the dB window of Spectrogram2D
TopDb3D == -30          \* top of the dB window of Spectrogram3DCanvas / Spectrogram3DWebGL
ByteMax == 255          \* Uint8 ceiling of codes, texels and colour channels
PlayheadWidth == 2      \* half width of the playhead line in pixels

NaN == 0 - 1            \* the result of 0/0 and of arithmetic on it
Undefined == 0 - 2      \* the value of an array read at a non-index

-----------------------------------------------------------------------------
(* Arithmetic helpers *)

Min(a, b) == IF a < b THEN a ELSE b
Max(a, b) == IF a > b THEN a ELSE b

\* Math.ceil(a / b) for a >= 0, b > 0
Ceil(a, b) == (a + b - 1) \div b

\* Math.floor(a / b) for b > 0
Floor(a, b) == a \div b

\* Math.round(a / b) for b > 0: halves round up
Round(a, b) == (2 * a + b) \div (2 * b)

RECURSIVE Pow(_, _)
Pow(b, e) == IF e = 0 THEN 1 ELSE b * Pow(b, e - 1)

\* Math.log10(n) in 1/10000, for the squared magnitudes the amplitudes produce
Log10E4(n) ==
  CASE n = 9 -> 9542
    [] n = 16 -> 12041
    [] n = 18 -> 12553
    [] n = 36 -> 15563
    [] n = 9000000 -> 69542
    [] n = 9000009 -> 69542
    [] n = 9018009 -> 69551
    [] n = 16000000 -> 72041
    [] n = 18000000 -> 72553
    [] n = 36000000 -> 75563
    [] n = 64000000 -> 78062

-----------------------------------------------------------------------------
(* Sample buffers *)

\* amplitude in thousandths of the sample at offset i of a signal
Signal(s, i) ==
  CASE s = "silence" -> 0
    [] s = "loud" -> 1000
    [] s = "mixed" -> IF i % 5 = 1 THEN 1 ELSE IF i % 5 \in {2, 4} THEN 1000 ELSE 0

Signals == {"silence", "loud", "mixed"}

AudioBuffers ==
  { [data |-> [i \in 1..n |-> Signal(s, i - 1)], sampleRate |-> r] :
      s \in Signals, n \in 0..MaxSamples, r \in SampleRates }

-----------------------------------------------------------------------------
(* Windowed magnitude analyser: computeFFTFromAnalyser *)

\* Variant: a window of fftSize samples whatever the chunk is
WindowSize_WholeFFT(chunkSize, fftSize) == fftSize

WindowSize(chunkSize, fftSize) == Min(chunkSize, fftSize)

\* Variant: the copy loop has no test against audioData.length and wraps around
CopySamples_Wrapping(audioData, startIndex, chunkSize, fftSize) ==
  [n \in 0..(fftSize - 1) |->
     IF n < WindowSize(chunkSize, fftSize) /\ Len(audioData) > 0
       THEN audioData[((startIndex + n) % Len(audioData)) + 1]
       ELSE 0]

\* the samples array after the copy loop, offsets 0..fftSize-1
CopySamples(audioData, startIndex, chunkSize, fftSize) ==
  [n \in 0..(fftSize - 1) |->
     IF n < WindowSize(chunkSize, fftSize) /\ startIndex + n < Len(audioData)
       THEN audioData[startIndex + n + 1]
       ELSE 0]

\* the offsets of audioData the copy loop reads
ReadOffsets(audioData, startIndex, chunkSize, fftSize) ==
  { startIndex + n : n \in { m \in 0..(WindowSize(chunkSize, fftSize) - 1) :
                               startIndex + m < Len(audioData) } }

\* 4 * 0.5 * (1 - cos(2 pi i / (windowSize - 1))); 0/0 when windowSize is 1
HannTimes4(windowSize, i) ==
  CASE windowSize = 1 -> NaN
    [] windowSize = 2 -> 0
    [] windowSize = 3 -> IF i = 1 THEN 4 ELSE 0
    [] windowSize = 4 -> IF i \in {1, 2} THEN 3 ELSE 0

\* samples after the Hann loop, in 1/4000
ApplyHann(samples, windowSize, fftSize) ==
  [n \in 0..(fftSize - 1) |->
     IF n < windowSize
       THEN IF HannTimes4(windowSize, n) = NaN THEN NaN
            ELSE samples[n] * HannTimes4(windowSize, n)
       ELSE 0]

\* quarter turns of the angle -2 pi k n / fftSize (fftSize divides 4)
QuarterTurns(k, n, fftSize) == (k * n * (4 \div fftSize)) % 4

CosTurn(q) == CASE q = 0 -> 1 [] q = 1 -> 0 [] q = 2 -> 0 - 1 [] q = 3 -> 0
SinTurn(q) == CASE q = 0 -> 0 [] q = 1 -> 0 - 1 [] q = 2 -> 0 [] q = 3 -> 1

RECURSIVE DftSum(_, _, _, _, _)
\* sum over n < upTo of samples[n] * (cos or sin)(angle)
DftSum(samples, k, fftSize, upTo, useCos) ==
  IF upTo = 0 THEN 0
  ELSE DftSum(samples, k, fftSize, upTo - 1, useCos)
       + samples[upTo - 1] * (IF useCos THEN CosTurn(QuarterTurns(k, upTo - 1, fftSize))
                                         ELSE SinTurn(QuarterTurns(k, upTo - 1, fftSize)))

\* top of the dB window the class clamps to
TopDb(knd) == IF knd = "2d" THEN TopDb2D ELSE TopDb3D

\* number of terms of the DFT loop: fftSize in Spectrogram2D, windowSize in the 3D classes
DftTerms(knd, windowSize, fftSize) == IF knd = "2d" THEN fftSize ELSE windowSize

\* Variant: a zero magnitude is taken as 0 dB instead of -100 dB
BinCode_SilenceAtZeroDb(knd, windowed, k, windowSize, fftSize) ==
  LET terms == DftTerms(knd, windowSize, fftSize)
  IN IF \E n \in 0..(terms - 1) : windowed[n] = NaN
       THEN 0
       ELSE
         LET real == DftSum(windowed, k, fftSize, terms, TRUE)
             imag == DftSum(windowed, k, fftSize, terms, FALSE)
             power == real * real + imag * imag
             dB == IF power > 0
                     THEN Log10E4(power) - Log10E4(fftSize * fftSize * 4000000)
                     ELSE 0
             clamped == Max(1000 * FloorDb, Min(1000 * TopDb(knd), dB))
             span == 1000 * (TopDb(knd) - FloorDb)
         IN Max(0, Min(ByteMax, Round((clamped - 1000 * FloorDb) * ByteMax, span)))

\* outputData[k]
BinCode(knd, windowed, k, windowSize, fftSize) ==
  LET terms == DftTerms(knd, windowSize, fftSize)
  IN IF \E n \in 0..(terms - 1) : windowed[n] = NaN
       THEN 0   \* NaN magnitude: "magnitude > 0" is false, dB = -100
       ELSE
         LET real == DftSum(windowed, k, fftSize, terms, TRUE)
             imag == DftSum(windowed, k, fftSize, terms, FALSE)
             power == real * real + imag * imag
             \* 1000 * 20 log10((2 / fftSize) * sqrt(power) / 4000)
             dB == IF power > 0
                     THEN Log10E4(power) - Log10E4(fftSize * fftSize * 4000000)
                     ELSE 1000 * FloorDb
             clamped == Max(1000 * FloorDb, Min(1000 * TopDb(knd), dB))
             span == 1000 * (TopDb(knd) - FloorDb)
         IN Max(0, Min(ByteMax, Round((clamped - 1000 * FloorDb) * ByteMax, span)))

\* the frame computeFFTFromAnalyser writes into outputData (length frequencyBinCount)
ComputeFFTFromAnalyser(knd, audioData, startIndex, chunkSize, fftSize) ==
  LET windowSize == WindowSize(chunkSize, fftSize)
      windowed == ApplyHann(CopySamples(audioData, startIndex, chunkSize, fftSize),
                            windowSize, fftSize)
  IN [k \in 1..(fftSize \div 2) |-> BinCode(knd, windowed, k - 1, windowSize, fftSize)]

\* what one call read and divided by
AnalyserCall(audioData, startIndex, chunkSize, fftSize) ==
  [startIndex |-> startIndex,
   fftSize |-> fftSize,
   windowSize |-> WindowSize(chunkSize, fftSize),
   reads |-> ReadOffsets(audioData, startIndex, chunkSize, fftSize),
   hannDenominator |-> WindowSize(chunkSize, fftSize) - 1]

-----------------------------------------------------------------------------
(* Offline spectrogram builder: the then-callback of startRendering *)

ChunkSize_Rounded(sampleRate) == Round(sampleRate, TargetFrameRate)
ChunkSize(sampleRate) == Ceil(sampleRate, TargetFrameRate)

RECURSIVE BuildFrames_DropPartial(_, _, _, _, _)
\* Variant: the loop stops before a last chunk that is not complete
BuildFrames_DropPartial(knd, rawData, i, chunkSize, fftSize) ==
  IF i + chunkSize <= Len(rawData)
    THEN <<ComputeFFTFromAnalyser(knd, rawData, i, chunkSize, fftSize)>>
         \o BuildFrames_DropPartial(knd, rawData, i + chunkSize, chunkSize, fftSize)
    ELSE <<>>

RECURSIVE BuildFrames_WholeWindows(_, _, _, _, _)
\* Variant: the loop only analyses windows of fftSize samples that fit the buffer
BuildFrames_WholeWindows(knd, rawData, i, chunkSize, fftSize) ==
  IF i + fftSize <= Len(rawData)
    THEN <<ComputeFFTFromAnalyser(knd, rawData, i, chunkSize, fftSize)>>
         \o BuildFrames_WholeWindows(knd, rawData, i + chunkSize, chunkSize, fftSize)
    ELSE <<>>

RECURSIVE BuildFrames(_, _, _, _, _)
\* for (let i = 0; i < rawData.length; i += chunkSize) push(frame)
BuildFrames(knd, rawData, i, chunkSize, fftSize) ==
  IF i < Len(rawData)
    THEN <<ComputeFFTFromAnalyser(knd, rawData, i, chunkSize, fftSize)>>
         \o BuildFrames(knd, rawData, i + chunkSize, chunkSize, fftSize)
    ELSE <<>>

RECURSIVE BuildCalls(_, _, _, _)
BuildCalls(rawData, i, chunkSize, fftSize) ==
  IF i < Len(rawData)
    THEN <<AnalyserCall(rawData, i, chunkSize, fftSize)>>
         \o BuildCalls(rawData, i + chunkSize, chunkSize, fftSize)
    ELSE <<>>

\* every value of every frame
AllValues(frames) ==
  UNION { { frames[f][b] : b \in 1..Len(frames[f]) } : f \in 1..Len(frames) }

RECURSIVE SetMin(_, _)
SetMin(S, start) ==
  IF S = {} THEN start
  ELSE LET v == CHOOSE x \in S : TRUE
       IN SetMin(S \ {v}, IF v < start THEN v ELSE start)

RECURSIVE SetMax(_, _)
SetMax(S, start) ==
  IF S = {} THEN start
  ELSE LET v == CHOOSE x \in S : TRUE
       IN SetMax(S \ {v}, IF v > start THEN v ELSE start)

ScanMin_FromZero(frames) == SetMin(AllValues(frames), 0)
\* let minValue = 255; scan
ScanMin(frames) == SetMin(AllValues(frames), ByteMax)
\* let maxValue = 0; scan
ScanMax(frames) == SetMax(AllValues(frames), 0)

-----------------------------------------------------------------------------
(* Texture packer of Spectrogram3DWebGL: createSpectrogramTexture *)

NoTexture == [created |-> FALSE]

\* The floors below are exact; for denominators up to the texture sizes of the model
\* the double computation Math.floor((x / d) * n) gives the same index.

\* binIndexForX[x]
BinIndexForX(x, width, sourceBinCount) ==
  LET widthDenominator == Max(1, width - 1)
      binDenominator == Max(1, sourceBinCount - 1)
  IN Min(sourceBinCount - 1, Floor(x * binDenominator, widthDenominator))

\* frameIndexForY[y]
FrameIndexForY(y, height, frameCount) ==
  LET heightDenominator == Max(1, height - 1)
      frameDenominator == Max(1, frameCount - 1)
  IN Min(frameCount - 1, Floor(y * frameDenominator, heightDenominator))

\* Variant: the fixed range of a byte instead of the range of the matrix
ValueRange_Byte(minValue, maxValue) == ByteMax

\* Math.max(1, maxValue - minValue)
ValueRange(minValue, maxValue) == Max(1, maxValue - minValue)

\* Math.max(0, Math.min(255, Math.round(((rawValue - minValue) / valueRange) * 255)))
Texel(rawValue, minValue, maxValue) ==
  Max(0, Min(ByteMax,
             Round((rawValue - minValue) * ByteMax, ValueRange(minValue, maxValue))))

\* the texture createSpectrogramTexture uploads; with no frames it returns early
CreateSpectrogramTexture(frames, maxBins, minValue, maxValue, width, height, old) ==
  IF Len(frames) = 0 THEN old
  ELSE
    LET frameCount == Len(frames)
        sourceBinCount == IF Len(frames[1]) # 0 THEN Len(frames[1]) ELSE maxBins
    IN [created |-> TRUE,
        width |-> width,
        height |-> height,
        valueRange |-> ValueRange(minValue, maxValue),
        frameIndexForY |-> [y \in 0..(height - 1) |-> FrameIndexForY(y, height, frameCount)],
        binIndexForX |-> [x \in 0..(width - 1) |-> BinIndexForX(x, width, sourceBinCount)],
        data |-> [c \in (0..(height - 1)) \X (0..(width - 1)) |->
                   LET freqData == frames[FrameIndexForY(c[1], height, frameCount) + 1]
                   IN IF Len(freqData) = 0 THEN 0
                      ELSE Texel(freqData[Min(Len(freqData) - 1,
                                              BinIndexForX(c[2], width, sourceBinCount)) + 1],
                                 minValue, maxValue)]]

\* Math.max(256, Math.min(maxTextureSize, n)), at the scale of the model
TextureSize(n) == Max(minTextureSize, Min(maxTextureSize, n))

-----------------------------------------------------------------------------
(* Frequency axis mapper: applyScaleMode, linearToMel *)

minHz == 20
maxHz == 20000
MelBreakHz == 700
ScaleModes == {0, 1, 2}

\* applyScaleMode(num / den) <= a / b, for 0 <= num <= den, 0 <= a <= b, b >= 1.
\* Log:  log10((minHz + t (maxHz - minHz)) / minHz) / log10(maxHz / minHz)
\* Mel:  the same with 700 added to every frequency (mel = 2595 log10(1 + f / 700))
ScaledAtMost(mode, num, den, a, b) ==
  IF mode \notin {0, 2} THEN num * b <= a * den
  ELSE
    LET c == IF mode = 0 THEN 0 ELSE MelBreakHz
    IN Pow((c + minHz) * den + num * (maxHz - minHz), b) * Pow(c + minHz, a)
         <= Pow(c + maxHz, a) * Pow((c + minHz) * den, b)

\* Math.floor((1.0 - applyScaleMode(pixelY / (height - 1))) * (length - 1))
BinIndexForPixel(mode, pixelY, height, length) ==
  IF height - 1 = 0 THEN NaN            \* pixelY / 0 with pixelY = 0
  ELSE IF length - 1 = 0 THEN 0
  ELSE CHOOSE m \in 0..(length - 1) :
         /\ ScaledAtMost(mode, pixelY, height - 1, length - 1 - m, length - 1)
         /\ \/ m = length - 1
            \/ ~ScaledAtMost(mode, pixelY, height - 1, length - 2 - m, length - 1)

\* Math.floor((pixelX / width) * (numColumns - 1))
DataIndexForPixel(pixelX, width, numColumns) == Floor(pixelX * (numColumns - 1), width)

-----------------------------------------------------------------------------
(* Colour mapper: getColorForValue and the palettes.  t is num / den. *)

\* resolution of t in the colour lookups: 0.25, 0.4, 0.5, 0.6, 0.75 and v / 255 are multiples
TUnits == 4 * ByteMax

\* Math.round((c0 + c1 * x) * 255) with c0, c1 in tenths and x = xn / xd
Channel(c0, c1, xn, xd) == Round(ByteMax * (c0 * xd + c1 * xn), 10 * xd)

\* The channels above are exact.  At the pairs <<n, channel>> below the double
\* arithmetic of the palette at t = n / TUnits lands just under the half the exact
\* value sits on, and Math.round gives one unit less.
RoundedDown(table, num, den, rgb) ==
  [ch \in 1..3 |-> IF den = TUnits /\ <<num, ch>> \in table THEN rgb[ch] - 1 ELSE rgb[ch]]

RainbowRoundsDown ==
  { <<1, 2>>, <<7, 2>>, <<11, 2>>, <<13, 2>>, <<17, 2>>, <<23, 2>>, <<29, 2>>,
    <<33, 2>>, <<45, 2>>, <<55, 2>>, <<57, 2>>, <<77, 2>>, <<93, 2>>, <<105, 2>>,
    <<109, 2>>, <<115, 2>>, <<117, 2>>, <<121, 2>>, <<125, 2>>, <<147, 2>>, <<163, 2>>,
    <<173, 1>>, <<175, 1>>, <<177, 1>>, <<183, 1>>, <<185, 1>>, <<187, 1>>, <<197, 1>>,
    <<199, 1>>, <<205, 1>>, <<207, 1>>, <<209, 1>>, <<229, 1>>, <<231, 1>>, <<237, 1>>,
    <<239, 1>>, <<241, 1>>, <<263, 1>>, <<279, 1>>, <<281, 1>>, <<283, 1>>, <<285, 1>>,
    <<295, 1>>, <<311, 1>>, <<313, 1>>, <<315, 1>>, <<317, 1>>, <<327, 1>>, <<329, 1>>,
    <<341, 3>>, <<343, 3>>, <<345, 3>>, <<347, 3>>, <<349, 3>>, <<351, 3>>, <<353, 3>>,
    <<355, 3>>, <<357, 3>>, <<363, 3>>, <<365, 3>>, <<367, 3>>, <<369, 3>>, <<371, 3>>,
    <<373, 3>>, <<385, 3>>, <<387, 3>>, <<389, 3>>, <<391, 3>>, <<395, 3>>, <<399, 3>>,
    <<403, 3>>, <<407, 3>>, <<411, 3>>, <<415, 3>>, <<419, 3>>, <<429, 3>>, <<433, 3>>,
    <<437, 3>>, <<449, 3>>, <<451, 3>>, <<453, 3>>, <<473, 3>>, <<477, 3>>, <<481, 3>>,
    <<485, 3>>, <<493, 3>>, <<497, 3>>, <<501, 3>>, <<527, 2>>, <<531, 2>>, <<535, 2>>,
    <<539, 2>>, <<543, 2>>, <<547, 2>>, <<559, 2>>, <<561, 2>>, <<563, 2>>, <<565, 2>>,
    <<567, 2>>, <<569, 2>>, <<571, 2>>, <<591, 2>>, <<593, 2>>, <<597, 2>>, <<601, 2>>,
    <<605, 2>>, <<609, 2>>, <<613, 2>>, <<623, 2>>, <<625, 2>>, <<627, 2>>, <<629, 2>>,
    <<631, 2>>, <<633, 2>>, <<635, 2>>, <<655, 2>>, <<657, 2>>, <<661, 2>>, <<665, 2>>,
    <<669, 2>>, <<673, 2>>, <<677, 2>>, <<681, 1>>, <<683, 1>>, <<685, 1>>, <<689, 1>>,
    <<693, 1>>, <<697, 1>>, <<701, 1>>, <<705, 1>>, <<709, 1>>, <<713, 1>>, <<717, 1>>,
    <<725, 1>>, <<729, 1>>, <<731, 1>>, <<733, 1>>, <<737, 1>>, <<739, 1>>, <<741, 1>>,
    <<745, 1>>, <<747, 1>>, <<749, 1>>, <<753, 1>>, <<769, 1>>, <<771, 1>>, <<773, 1>>,
    <<775, 1>>, <<779, 1>>, <<787, 1>>, <<795, 1>>, <<803, 1>>, <<811, 1>>, <<813, 1>>,
    <<819, 1>>, <<821, 1>>, <<827, 1>>, <<829, 1>>, <<835, 1>>, <<837, 1>>, <<843, 1>>,
    <<857, 3>>, <<865, 3>>, <<873, 3>>, <<877, 3>>, <<879, 3>>, <<881, 3>>, <<883, 3>>,
    <<885, 3>>, <<887, 3>>, <<889, 3>>, <<909, 3>>, <<911, 3>>, <<913, 3>>, <<917, 3>>,
    <<919, 3>>, <<921, 3>>, <<925, 3>>, <<927, 3>>, <<929, 3>>, <<945, 3>>, <<947, 3>>,
    <<953, 3>>, <<955, 3>>, <<961, 3>>, <<963, 3>>, <<969, 3>>, <<971, 3>>, <<973, 3>>,
    <<975, 3>>, <<979, 3>>, <<987, 3>>, <<995, 3>>, <<1003, 3>>, <<1005, 3>>, <<1007, 3>>,
    <<1009, 3>>, <<1011, 3>>, <<1013, 3>>, <<1015, 3>>, <<1017, 3>>, <<1019, 3>> }

InfernoRoundsDown ==
  { <<325, 2>>, <<405, 2>>, <<435, 2>>, <<485, 2>>, <<520, 1>>, <<522, 1>>, <<524, 1>>,
    <<550, 1>>, <<552, 1>>, <<554, 1>>, <<556, 1>>, <<582, 1>>, <<584, 1>>, <<586, 1>>,
    <<588, 1>>, <<614, 1>>, <<616, 1>>, <<618, 1>>, <<620, 1>>, <<646, 1>>, <<648, 1>>,
    <<650, 1>>, <<652, 1>>, <<678, 1>>, <<680, 1>>, <<682, 1>>, <<684, 1>>, <<710, 1>>,
    <<712, 1>>, <<714, 1>>, <<716, 1>>, <<742, 1>>, <<744, 1>>, <<746, 1>>, <<748, 1>> }

ForestRoundsDown ==
  { <<500, 1>>, <<525, 1>>, <<555, 1>>, <<570, 2>>, <<615, 1>>, <<630, 2>>, <<650, 2>>,
    <<715, 1>>, <<725, 3>>, <<730, 2>>, <<755, 3>>, <<775, 1>>, <<785, 3>>, <<790, 2>>,
    <<810, 2>>, <<815, 3>>, <<845, 3>>, <<850, 2>>, <<855, 3>>, <<870, 2>>, <<875, 1>>,
    <<890, 2>>, <<895, 3>>, <<905, 1>>, <<915, 3>>, <<935, 1>>, <<945, 3>>, <<950, 2>>,
    <<955, 3>>, <<970, 2>>, <<975, 3>>, <<1005, 3>>, <<1015, 3>> }

MountainsRoundsDown ==
  { <<56, 1>>, <<72, 1>>, <<80, 3>>, <<88, 1>>, <<104, 1>>, <<120, 1>>, <<136, 1>>,
    <<144, 3>>, <<152, 1>>, <<152, 2>>, <<168, 1>>, <<200, 1>>, <<208, 3>>, <<232, 1>>,
    <<240, 3>>, <<272, 3>>, <<276, 3>>, <<296, 1>>, <<336, 3>>, <<340, 3>>, <<360, 2>>,
    <<400, 3>>, <<404, 3>>, <<416, 1>>, <<416, 2>>, <<424, 1>>, <<432, 1>>, <<432, 2>>,
    <<448, 1>>, <<456, 2>>, <<464, 1>>, <<464, 2>>, <<472, 1>>, <<480, 1>>, <<480, 2>>,
    <<496, 1>>, <<496, 2>>, <<504, 2>>, <<512, 1>>, <<512, 2>>, <<520, 1>>, <<520, 2>>,
    <<536, 1>>, <<544, 1>>, <<544, 2>>, <<552, 1>>, <<552, 2>>, <<568, 1>>, <<576, 1>>,
    <<584, 1>>, <<584, 2>>, <<600, 1>>, <<608, 1>>, <<608, 2>>, <<628, 3>>, <<660, 3>>,
    <<668, 2>>, <<724, 3>>, <<756, 3>>, <<788, 3>>, <<852, 3>>, <<916, 3>>, <<924, 2>>,
    <<980, 3>> }

colorGray(num, den) ==
  LET val == Round(num * ByteMax, den) IN <<val, val, val>>

\* hsvToRgb(t * 360, 1, 1): hp = 6 t, x = 1 - |hp % 2 - 1|
colorRainbow(num, den) ==
  LET sector == Floor(6 * num, den)
      part == 6 * num - sector * den
      x == Round(ByteMax * (IF sector % 2 = 0 THEN part ELSE den - part), den)
      c == ByteMax
  IN RoundedDown(RainbowRoundsDown, num, den,
                 CASE sector = 0 -> <<c, x, 0>>
                   [] sector = 1 -> <<x, c, 0>>
                   [] sector = 2 -> <<0, c, x>>
                   [] sector = 3 -> <<0, x, c>>
                   [] sector = 4 -> <<x, 0, c>>
                   [] OTHER -> <<c, 0, x>>)

\* the branch of colorInferno for the i-th quarter of [0, 1], x = (t - (i-1)/4) * 4
InfernoSegment(i, num, den) ==
  LET xn == 4 * num - (i - 1) * den
  IN CASE i = 1 -> <<Channel(0, 0, xn, den), Channel(0, 5, xn, den), Channel(0, 10, xn, den)>>
       [] i = 2 -> <<Channel(0, 10, xn, den), Channel(5, 3, xn, den), Channel(10, 0 - 2, xn, den)>>
       [] i = 3 -> <<Channel(5, 5, xn, den), Channel(8, 0 - 3, xn, den), Channel(8, 0 - 8, xn, den)>>
       [] i = 4 -> <<Channel(10, 0 - 2, xn, den), Channel(10, 0 - 2, xn, den), Channel(0, 2, xn, den)>>

InfernoSegmentOf(num, den) ==
  IF 4 * num < den THEN 1 ELSE IF 2 * num < den THEN 2 ELSE IF 4 * num < 3 * den THEN 3 ELSE 4

colorInferno(num, den) ==
  RoundedDown(InfernoRoundsDown, num, den, InfernoSegment(InfernoSegmentOf(num, den), num, den))

\* the branch of colorForest for the i-th half of [0, 1], x = (t - (i-1)/2) * 2
ForestSegment(i, num, den) ==
  LET xn == 2 * num - (i - 1) * den
  IN CASE i = 1 -> <<Channel(1, 3, xn, den), Channel(4, 3, xn, den), Channel(1, 1, xn, den)>>
       [] i = 2 -> <<Channel(4, 6, xn, den), Channel(7, 3, xn, den), Channel(2, 0 - 2, xn, den)>>

ForestSegmentOf(num, den) == IF 2 * num < den THEN 1 ELSE 2

colorForest(num, den) ==
  RoundedDown(ForestRoundsDown, num, den, ForestSegment(ForestSegmentOf(num, den), num, den))

\* the branches of colorMountains: t / 0.4, (t - 0.4) / 0.2, (t - 0.6) / 0.4
MountainsSegment(i, num, den) ==
  CASE i = 1 -> LET xn == 5 * num  xd == 2 * den
                IN <<Channel(0, 3, xn, xd), Channel(2, 5, xn, xd), Channel(5, 4, xn, xd)>>
    [] i = 2 -> LET xn == 5 * num - 2 * den  xd == den
                IN <<Channel(3, 7, xn, xd), Channel(7, 3, xn, xd), Channel(9, 0 - 4, xn, xd)>>
    [] i = 3 -> LET xn == 5 * num - 3 * den  xd == 2 * den
                IN <<Channel(10, 0, xn, xd), Channel(10, 0 - 3, xn, xd), Channel(5, 0 - 3, xn, xd)>>

MountainsSegmentOf(num, den) ==
  IF 5 * num < 2 * den THEN 1 ELSE IF 5 * num < 3 * den THEN 2 ELSE 3

colorMountains(num, den) ==
  RoundedDown(MountainsRoundsDown, num, den, MountainsSegment(MountainsSegmentOf(num, den), num, den))

ColorModes == {0, 1, 2, 3, 5}

\* the switch of getColorForValue on this.colorMode, applied to t = num / den
ColorFor(mode, num, den) ==
  CASE mode = 0 -> colorRainbow(num, den)
    [] mode = 1 -> colorGray(num, den)
    [] mode = 2 -> colorInferno(num, den)
    [] mode = 3 -> colorForest(num, den)
    [] mode = 5 -> colorMountains(num, den)
    [] OTHER -> colorGray(num, den)

\* getColorForValue(value): normalized = value / 255; an undefined value gives NaN channels
GetColorForValue(mode, value) ==
  IF value = Undefined THEN <<NaN, NaN, NaN>> ELSE ColorFor(mode, 4 * value, TUnits)

\* control points c0..c5 of infernoColormap (three.js app), in thousandths
InfernoControl(i) ==
  CASE i = 0 -> <<0, 0, 15>>
    [] i = 1 -> <<258, 39, 406>>
    [] i = 2 -> <<578, 148, 404>>
    [] i = 3 -> <<865, 316, 226>>
    [] i = 4 -> <<988, 645, 39>>
    [] i = 5 -> <<988, 1000, 644>>

\* lerp(from, to, localT) of the i-th fifth, localT = (value - (i-1) 0.2) / 0.2, as the
\* exact rational in 1/(1000 den) (the source returns the nearest doubles, unrounded)
InfernoColormapSegment(i, num, den) ==
  LET from == InfernoControl(i - 1)
      to == InfernoControl(i)
      localNum == 5 * num - (i - 1) * den
  IN [ch \in 1..3 |-> from[ch] * den + (to[ch] - from[ch]) * localNum]

InfernoColormapSegmentOf(num, den) ==
  IF 5 * num < den THEN 1 ELSE IF 5 * num < 2 * den THEN 2
  ELSE IF 5 * num < 3 * den THEN 3 ELSE IF 5 * num < 4 * den THEN 4 ELSE 5

\* infernoColormap(t) with value = clamp(t, 0, 1)
infernoColormap(num, den) ==
  LET value == Min(den, Max(0, num))
  IN InfernoColormapSegment(InfernoColormapSegmentOf(value, den), value, den)

-----------------------------------------------------------------------------
(* 2D canvas resampler: drawSpectrogram of Spectrogram2D / Spectrogram3DCanvas *)

NoImage == [branch |-> "none"]

BackgroundColor == <<23, 23, 23>>

\* what the loop body computes for the pixel (pixelX, pixelY); reading .length of a
\* frame that does not exist throws
FullPixel(frames, pixelX, pixelY, width, height, mode, cmode) ==
  LET dataIndex == DataIndexForPixel(pixelX, width, Len(frames))
  IN IF dataIndex \notin 0..(Len(frames) - 1)
       THEN [dataIndex |-> dataIndex, threw |-> TRUE, binIndex |-> Undefined,
             value |-> Undefined, normalized |-> Undefined, color |-> <<NaN, NaN, NaN>>]
       ELSE
         LET freqData == frames[dataIndex + 1]
             binIndex == BinIndexForPixel(mode, pixelY, height, Len(freqData))
             value == IF binIndex \in 0..(Len(freqData) - 1) THEN freqData[binIndex + 1]
                      ELSE Undefined
         IN [dataIndex |-> dataIndex,
             threw |-> FALSE,
             binIndex |-> binIndex,
             value |-> value,
             normalized |-> value,       \* value / 255, in 1/255
             color |-> GetColorForValue(cmode, value)]

\* const playheadX = Math.round(this.currentPlayPosition * width), 2 pixels either side
PlayheadColumns(position, width) ==
  LET playheadX == Round(position * width, 1000)
  IN Max(0, playheadX - PlayheadWidth)..Min(width - 1, playheadX + PlayheadWidth)

\* Variant: the full-spectrogram branch without its numColumns > 0 test
DrawSpectrogram_NoColumnTest(knd, frames, full, bins, width, height, mode, cmode, position) ==
  LET cells == (0..(width - 1)) \X (0..(height - 1))
      px == [c \in cells |-> FullPixel(frames, c[1], c[2], width, height, mode, cmode)]
  IN IF full
       THEN [branch |-> "full",
             px |-> px,
             frameReads |-> { px[c].dataIndex : c \in cells },
             denominators |-> {width, height - 1},
             playheadColumns |-> PlayheadColumns(position, width)]
       ELSE [branch |-> "background",
             px |-> [c \in cells |-> [color |-> BackgroundColor]],
             frameReads |-> {},
             denominators |-> {},
             playheadColumns |-> {}]

\* the ImageData one call of drawSpectrogram puts on the canvas, with the frames it
\* read and the denominators it divided by.  Outside the full-spectrogram branch
\* Spectrogram2D paints the columns x < numColumns from frame x (y / numBins) and
\* the rest with the background; Spectrogram3DCanvas paints the background only.
DrawSpectrogram(knd, frames, full, bins, width, height, mode, cmode, position) ==
  LET numColumns == Len(frames)
      numBins == Min(bins, height)
      cells == (0..(width - 1)) \X (0..(height - 1))
  IN IF full /\ numColumns > 0
       THEN LET px == [c \in cells |->
                         FullPixel(frames, c[1], c[2], width, height, mode, cmode)]
            IN [branch |-> "full",
                px |-> px,
                frameReads |-> { px[c].dataIndex : c \in cells },
                denominators |-> {width, height - 1},
                playheadColumns |-> PlayheadColumns(position, width)]
       ELSE LET scrolled == IF knd = "2d" THEN 0..(Min(numColumns, width) - 1) ELSE {}
            IN [branch |-> "background",
                px |-> [c \in cells |-> [color |-> BackgroundColor]],
                frameReads |-> scrolled,
                denominators |-> IF scrolled # {} /\ numBins > 0 THEN {numBins} ELSE {},
                playheadColumns |-> {}]

-----------------------------------------------------------------------------
(* The renderer object and its handlers *)

\* the Player as its constructor leaves it: buffer is the duration of this.buffer
\* (0 for null), source tells whether this.source is set, sourceBuffer is the duration of
\* this.source.buffer, fftSize is this.analyser.fftSize (in true units, not scaled)
PlayerFFTSize == 1024          \* analyser.fftSize = 1024
NewPlayer ==
  [fftSize |-> PlayerFFTSize, buffer |-> 0, source |-> FALSE, sourceBuffer |-> 0,
   startTime |-> 0, pauseTime |-> 0, isPlaying |-> FALSE]

\* the transport variables of main.ts as declared: currentBuffer is the duration of the
\* buffer (0 for null), bufferSource tells whether a source node is set
\* main.ts: the mesh has timeSamples rows of ySegments vertices
ySegments == 2
timeSamples == 3
nVertices == ySegments * timeSamples

\* analyser.frequencyBinCount of the Player's analyser
frequencyBinCount(p) == p.fftSize \div 2

\* AnalyserView.initByteBuffer(): a new frame buffer and texture when there is none or
\* its length differs from the analyser's bin count
initByteBuffer(view, p) ==
  IF view.freqByteData = 0 \/ view.freqByteData # frequencyBinCount(p)
    THEN [view EXCEPT !.freqByteData = frequencyBinCount(p),
                      !.textureWidth = frequencyBinCount(p)]
    ELSE view

NewThreeApp ==
  [currentBuffer |-> 0, waveformDuration |-> 0, bufferSource |-> FALSE,
   playStartTime |-> 0, pauseOffset |-> 0, isPlayingBuffer |-> FALSE,
   paused |-> FALSE, hasAudioFile |-> FALSE]

\* no scale lookup yet
InitScale ==
  /\ scaleT = <<0, 0>>
  /\ scaleOut = [fn |-> "none"]

\* AnalyserView after init(): setAnalyserNode(player.getAnalyserNode()), initByteBuffer()
NewAnalyserView == initByteBuffer([freqByteData |-> 0, textureWidth |-> 0, filled |-> 0, uploaded |-> 0,
                                   yoffset |-> 0],
                                  NewPlayer)

\* a JavaScript value: a number, NaN, or undefined
JsNumber(v) == [type |-> "number", v |-> v]
JsNaN == [type |-> "NaN", v |-> 0]
JsUndefined == [type |-> "undefined", v |-> 0]

\* an object with the keys names[i] holding the numbers values[i]
Object3(names, values) ==
  [key \in {names[1], names[2], names[3]} |->
     JsNumber(IF key = names[1] THEN values[1]
              ELSE IF key = names[2] THEN values[2] ELSE values[3])]
RotationKeys == <<"xRot", "yRot", "zRot">>
TranslationKeys == <<"xT", "yT", "zT">>
AxisKeys == <<"x", "y", "z">>

\* the mesh the AnalyserView creates: rotation in degrees, position in hundredths
NewMesh == [rotation |-> Object3(AxisKeys, <<0 - 180, 270, 90>>),
            position |-> Object3(AxisKeys, <<96, 0 - 680, 0>>)]

\* the animation fields of the application after its constructor; now is Date.now() in
\* units of animationDuration, frames the callbacks requestAnimationFrame holds, commands
\* the number of camera commands so far
NewAnimation ==
  [mesh |-> NewMesh,
   animationInProgress |-> FALSE,
   animationStartTime |-> 0,
   animationStartValues |-> Object3(RotationKeys, <<0, 0, 0>>),
   animationTargetValues |-> Object3(RotationKeys, <<0, 0, 0>>),
   currentZoom |-> 1,
   now |-> 0,
   frames |-> <<>>,
   commands |-> 0]

\* the render loop after the constructor: not rendering, no draw callback held by
\* requestAnimationFrame; analysed counts the calls of doFrequencyAnalysis the callbacks
\* of the last displayed frame made
NewRenderLoop == [isRendering |-> FALSE, draws |-> 0, analysed |-> 0]

\* new Uint8Array(length)
Uint8Array(length) == [i \in 1..length |-> 0]

\* the mesh of main.ts as the page starts: heights all zero, scale mode mel
NewThreeMesh == [heights |-> Uint8Array(nVertices), scaleMode |-> "mel"]

\* heights = new Uint8Array(nVertices) and the displacement attribute set to it
clearHeights(m) == [m EXCEPT !.heights = Uint8Array(nVertices)]

InitLive ==
  /\ analyserView = NewAnalyserView
  /\ animation = NewAnimation
  /\ renderLoop = NewRenderLoop
  /\ threeMesh = NewThreeMesh

\* a transport nobody has touched
InitTransport ==
  /\ app = "webgl"
  /\ contextTime = 0
  /\ player = NewPlayer
  /\ threeApp = NewThreeApp
  /\ loads = <<>>
  /\ lastOp = [op |-> "none", n |-> 0]

InitialFFTSize == 4            \* stands for this.currentFFTSize = 1024
InitialMaxFreqBins == 1        \* stands for this.maxFreqBins = 256

\* fftSize = this.analyserNode ? this.analyserNode.fftSize : this.currentFFTSize
LoadFFTSize == IF analyserNode # 0 THEN analyserNode ELSE currentFFTSize

InitRenderer ==
  /\ kind \in Kinds
  /\ decoded \in AudioBuffers
  /\ audioBuffer = FALSE
  /\ analyserNode \in {0} \cup FFTSizes
  /\ maxFreqBins = (IF analyserNode # 0 THEN analyserNode \div 2 ELSE InitialMaxFreqBins)
  /\ currentFFTSize = InitialFFTSize
  /\ pending = <<>>
  /\ spectrogramData = <<>>
  /\ analysed = <<>>
  /\ isFullSpectrogram = FALSE
  /\ spectrogramMin = 0
  /\ spectrogramMax = ByteMax
  /\ textureWidth = maxTextureSize
  /\ textureHeight = maxTextureSize
  /\ texture = NoTexture
  /\ canvasWidth \in (IF kind \in CanvasKinds THEN 1..MaxWidth ELSE {MaxWidth})
  /\ canvasHeight \in (IF kind \in CanvasKinds THEN 1..MaxHeight ELSE {MaxHeight})
  /\ scaleMode = 0
  /\ colorMode = (IF kind = "webgl" THEN 2 ELSE 1)
  /\ currentPlayPosition = 0
  /\ imageData = NoImage

Init ==
  /\ InitRenderer
  /\ colorT = 0
  /\ colorOut = [fn |-> "none"]
  /\ InitTransport
  /\ InitScale
  /\ InitLive

\* loadFullSpectrogram(audioBuffer) up to startRendering()
LoadFullSpectrogram ==
  /\ Len(pending) < MaxPending
  /\ audioBuffer' = TRUE
  /\ currentFFTSize' = LoadFFTSize
  /\ pending' = Append(pending, LoadFFTSize)
  /\ imageData' = NoImage
  /\ UNCHANGED <<kind, decoded, analyserNode, buildVars, canvasWidth, canvasHeight,
                 scaleMode, currentPlayPosition, colorVars, transportVars, scaleVars, liveVars>>

\* the texture dimensions the callback of Spectrogram3DWebGL sets (createDefaultGeometry
\* keeps them when 32-bit element indices are available)
NewTextureWidth(fftSize) == TextureSize(fftSize \div 2)
NewTextureHeight(frames) == TextureSize(Len(frames))

\* the then-callback of startRendering() of the i-th rendering in flight
RenderingDone(i) ==
  LET fftSize == pending[i]
      chunkSize == ChunkSize(decoded.sampleRate)
      frames == BuildFrames(kind, decoded.data, 0, chunkSize, fftSize)
  IN /\ pending' = [j \in 1..(Len(pending) - 1) |-> IF j < i THEN pending[j] ELSE pending[j + 1]]
     /\ spectrogramData' = frames
     /\ analysed' = BuildCalls(decoded.data, 0, chunkSize, fftSize)
     /\ isFullSpectrogram' = TRUE
     /\ maxFreqBins' = fftSize \div 2
     /\ IF kind = "webgl"
          THEN /\ spectrogramMin' = ScanMin(frames)
               /\ spectrogramMax' = ScanMax(frames)
               /\ textureWidth' = NewTextureWidth(fftSize)
               /\ textureHeight' = NewTextureHeight(frames)
               /\ texture' = CreateSpectrogramTexture(frames, fftSize \div 2,
                                ScanMin(frames), ScanMax(frames),
                                NewTextureWidth(fftSize), NewTextureHeight(frames), texture)
          ELSE UNCHANGED <<spectrogramMin, spectrogramMax, textureWidth, textureHeight, texture>>
     /\ imageData' = NoImage
     /\ UNCHANGED <<kind, decoded, audioBuffer, analyserNode, currentFFTSize,
                    canvasWidth, canvasHeight, scaleMode, currentPlayPosition, colorVars, transportVars, scaleVars, liveVars>>

\* onResize(): the canvas takes the size of its layout box
OnResize(width, height) ==
  /\ kind \in CanvasKinds
  /\ canvasWidth' = width
  /\ canvasHeight' = height
  /\ imageData' = NoImage
  /\ UNCHANGED <<kind, decoded, audioBuffer, analyserNode, currentFFTSize, pending,
                 buildVars, scaleMode, currentPlayPosition, colorVars, transportVars, scaleVars, liveVars>>

SetScaleMode(mode) ==
  /\ kind \in CanvasKinds
  /\ scaleMode' = mode
  /\ imageData' = NoImage
  /\ UNCHANGED <<kind, decoded, audioBuffer, analyserNode, currentFFTSize, pending,
                 buildVars, canvasWidth, canvasHeight, currentPlayPosition, colorVars, transportVars, scaleVars, liveVars>>

\* one animation frame: render() -> drawSpectrogram()
Render ==
  /\ kind \in CanvasKinds
  /\ imageData' = DrawSpectrogram(kind, spectrogramData, isFullSpectrogram, maxFreqBins,
                                  canvasWidth, canvasHeight, scaleMode, colorMode,
                                  currentPlayPosition)
  /\ UNCHANGED <<kind, decoded, audioBuffer, analyserNode, currentFFTSize, pending,
                 buildVars, canvasWidth, canvasHeight, scaleMode, currentPlayPosition,
                 colorVars, transportVars, scaleVars, liveVars>>

Next ==
  \/ LoadFullSpectrogram
  \/ \E i \in 1..Len(pending) : RenderingDone(i)
  \/ \E w \in 1..MaxWidth, h \in 1..MaxHeight : OnResize(w, h)
  \/ \E m \in ScaleModes : SetScaleMode(m)
  \/ Render

Spec == Init /\ [][Next]_vars

-----------------------------------------------------------------------------
(* Colour lookups: the palettes of the canvas renderers and of the three.js app *)

InitColor ==
  /\ InitRenderer
  /\ kind = "2d"
  /\ decoded = [data |-> <<>>, sampleRate |-> 60]
  /\ analyserNode = 0
  /\ canvasWidth = 1
  /\ canvasHeight = 1
  /\ colorT \in 0..TUnits
  /\ colorOut = [fn |-> "none"]
  /\ InitTransport
  /\ InitScale
  /\ InitLive

rendererVarsButPosition == <<kind, decoded, audioBuffer, analyserNode, currentFFTSize, pending,
                             buildVars, canvasVars>>
rendererVars_NoTransport == <<kind, decoded, audioBuffer, analyserNode, currentFFTSize, pending,
                              buildVars, canvasVars, currentPlayPosition>>
rendererVars == <<kind, decoded, audioBuffer, analyserNode, currentFFTSize, pending,
                  buildVars, canvasVars, currentPlayPosition, transportVars, scaleVars, liveVars>>

SetColorMode(mode) ==
  /\ colorMode' = mode
  /\ UNCHANGED <<rendererVars, colorT, colorOut>>

\* a call of the palette method this.colorMode selects, with t = colorT / TUnits
PaletteLookup ==
  /\ colorOut' = [fn |-> "palette", mode |-> colorMode,
                  rgb |-> ColorFor(colorMode, colorT, TUnits)]
  /\ UNCHANGED <<rendererVars, colorMode, colorT>>

\* getColorForValue(value) for the byte code with value / 255 = t
GetColorForValueCall ==
  /\ colorT % 4 = 0
  /\ colorOut' = [fn |-> "getColorForValue", mode |-> colorMode,
                  rgb |-> GetColorForValue(colorMode, colorT \div 4)]
  /\ UNCHANGED <<rendererVars, colorMode, colorT>>

\* infernoColormap(t) of the three.js app
InfernoColormapCall ==
  /\ colorOut' = [fn |-> "infernoColormap", rgb |-> infernoColormap(colorT, TUnits)]
  /\ UNCHANGED <<rendererVars, colorMode, colorT>>

NextColor ==
  \/ \E m \in ColorModes : SetColorMode(m)
  \/ PaletteLookup
  \/ GetColorForValueCall
  \/ InfernoColormapCall

SpecColor == InitColor /\ [][NextColor]_vars

-----------------------------------------------------------------------------
(* Properties of the offline build *)

sampleCount == Len(decoded.data)
hopSize == Ceil(decoded.sampleRate, TargetFrameRate)
Cells == (0..(canvasWidth - 1)) \X (0..(canvasHeight - 1))

\* C1: once loadFullSpectrogram has completed, the matrix holds exactly
\* ceil(sampleCount / hopSize) frames and every frame has fftSize / 2 bins.
C1_FrameCount ==
  isFullSpectrogram =>
    /\ Len(spectrogramData) = Ceil(sampleCount, hopSize)
    /\ \A f \in 1..Len(spectrogramData) : Len(spectrogramData[f]) = currentFFTSize \div 2

\* a build whose last chunk is partial, so the ceiling counts one frame more than the floor
C1_Witness ==
  /\ isFullSpectrogram
  /\ Len(spectrogramData) >= 2
  /\ sampleCount % hopSize # 0
  /\ currentFFTSize \div 2 = 2

\* C2 as stated: frame i is computed from exactly the samples at the offsets
\* [i * hopSize, i * hopSize + fftSize) that lie inside the buffer.
C2_WindowIsFFTSize ==
  \A i \in 1..Len(analysed) :
    analysed[i].reads =
      { o \in ((i - 1) * hopSize)..((i - 1) * hopSize + currentFFTSize - 1) : o < sampleCount }

\* C2 as the code has it: frame i starts at i * hopSize and is computed from the
\* samples at the offsets [i * hopSize, i * hopSize + min(hopSize, fftSize)) that lie
\* inside the buffer; every other position of the FFT input is zero.
C2_WindowIsMinOfHopAndFFT ==
  \A i \in 1..Len(analysed) :
    /\ analysed[i].startIndex = (i - 1) * hopSize
    /\ analysed[i].reads =
         { o \in ((i - 1) * hopSize)..((i - 1) * hopSize + Min(hopSize, currentFFTSize) - 1) :
             o < sampleCount }

\* a frame whose FFT is longer than the hop, with samples of the buffer past the hop
C2_Witness ==
  /\ isFullSpectrogram
  /\ currentFFTSize > hopSize
  /\ \E i \in 1..Len(analysed) : (i - 1) * hopSize + hopSize < sampleCount

\* C3 as stated: a non-empty buffer shorter than fftSize gives exactly one frame.
C3_ShorterThanFFTSize ==
  (isFullSpectrogram /\ sampleCount >= 1 /\ sampleCount < currentFFTSize)
    => Len(spectrogramData) = 1

\* C3 as the code has it: a non-empty buffer never gives zero frames, and it gives
\* exactly one frame exactly when it is no longer than one hop.
C3_AtMostOneHop ==
  (isFullSpectrogram /\ sampleCount >= 1) =>
    /\ Len(spectrogramData) >= 1
    /\ (Len(spectrogramData) = 1) <=> (sampleCount <= hopSize)

\* a buffer shorter than the FFT and no longer than the hop, built into one frame
C3_Witness ==
  /\ isFullSpectrogram
  /\ sampleCount >= 1
  /\ sampleCount < currentFFTSize
  /\ sampleCount <= hopSize
  /\ Len(spectrogramData) = 1

-----------------------------------------------------------------------------
(* Properties of the resampling paths *)

\* C5 as stated: in the full-spectrogram canvas path the top pixel row reads the
\* highest bin, the bottom pixel row reads bin 0, and the bin index does not
\* increase with pixelY.
C5_TopHighBottomLow ==
  imageData.branch = "full" =>
    \A x \in 0..(canvasWidth - 1) :
      /\ imageData.px[<<x, 0>>].binIndex = maxFreqBins - 1
      /\ imageData.px[<<x, canvasHeight - 1>>].binIndex = 0
      /\ \A y1, y2 \in 0..(canvasHeight - 1) :
           y1 <= y2 => imageData.px[<<x, y1>>].binIndex >= imageData.px[<<x, y2>>].binIndex

\* the same on canvases of at least two pixel rows
InvertedAboveOneRow == canvasHeight >= 2 => C5_TopHighBottomLow

\* C6 as stated: every cell of every resampling path reads a frame index in
\* [0, frameCount - 1] and a bin index in [0, binCount - 1].
C6_IndicesInRange ==
  /\ imageData.branch = "full" =>
       \A c \in Cells :
         /\ imageData.px[c].dataIndex \in 0..(Len(spectrogramData) - 1)
         /\ imageData.px[c].binIndex \in 0..(maxFreqBins - 1)
  /\ texture.created =>
       /\ \A y \in 0..(texture.height - 1) :
            texture.frameIndexForY[y] \in 0..(Len(spectrogramData) - 1)
       /\ \A x \in 0..(texture.width - 1) :
            texture.binIndexForX[x] \in 0..(maxFreqBins - 1)

\* the texture path alone keeps its indices in range
TextureIndicesInRange ==
  texture.created =>
    /\ \A y \in 0..(texture.height - 1) :
         texture.frameIndexForY[y] \in 0..(Len(spectrogramData) - 1)
    /\ \A x \in 0..(texture.width - 1) :
         texture.binIndexForX[x] \in 0..(maxFreqBins - 1)

\* C7 as stated: every denominator of the analysis and of the resampling is at
\* least 1: the Hann denominator, the canvas denominators, the value range.
C7_DenominatorsClamped ==
  /\ \A i \in 1..Len(analysed) : analysed[i].hannDenominator >= 1
  /\ imageData.branch # "none" => \A d \in imageData.denominators : d >= 1
  /\ texture.created => texture.valueRange >= 1

\* C8 as stated: with linear scale, a matrix of F frames by B bins drawn on a grid
\* of the same size shows frame x in column x and a distinct bin in every row.
C8_IdentityResampling ==
  /\ ( /\ imageData.branch = "full"
       /\ scaleMode = 1
       /\ canvasWidth = Len(spectrogramData)
       /\ canvasHeight = maxFreqBins ) =>
       /\ \A c \in Cells : imageData.px[c].dataIndex = c[1]
       /\ \A c, d \in Cells :
            c[2] # d[2] => imageData.px[c].binIndex # imageData.px[d].binIndex
  /\ ( /\ texture.created
       /\ texture.height = Len(spectrogramData)
       /\ texture.width = maxFreqBins ) =>
       /\ \A y \in 0..(texture.height - 1) : texture.frameIndexForY[y] = y
       /\ \A x \in 0..(texture.width - 1) : texture.binIndexForX[x] = x

\* the texture path alone is the identity on a grid of the size of the matrix, at the
\* texture sizes of the model
TextureIdentity ==
  ( /\ texture.created
    /\ texture.height = Len(spectrogramData)
    /\ texture.width = maxFreqBins ) =>
    /\ \A y \in 0..(texture.height - 1) : texture.frameIndexForY[y] = y
    /\ \A x \in 0..(texture.width - 1) : texture.binIndexForX[x] = x
    /\ \A c \in (0..(texture.height - 1)) \X (0..(texture.width - 1)) :
         texture.data[c] = Texel(spectrogramData[c[1] + 1][c[2] + 1],
                                 spectrogramMin, spectrogramMax)

\* the value range (min, max) of the installed matrix
MatrixMin == CHOOSE v \in AllValues(spectrogramData) :
               \A u \in AllValues(spectrogramData) : v <= u
MatrixMax == CHOOSE v \in AllValues(spectrogramData) :
               \A u \in AllValues(spectrogramData) : v >= u

\* (value - min) / max(1, max - min), as a byte
Renormalized(value, minValue, maxValue) ==
  LET range == IF maxValue - minValue < 1 THEN 1 ELSE maxValue - minValue
      byte == (2 * (value - minValue) * ByteMax + range) \div (2 * range)
  IN IF byte < 0 THEN 0 ELSE IF byte > ByteMax THEN ByteMax ELSE byte

\* C9 as stated: every renderer path renormalizes the sampled raw magnitude with
\* the value range of the matrix before a colour is derived from it.
C9_EveryPathRenormalizes ==
  /\ imageData.branch = "full" =>
       \A c \in Cells :
         imageData.px[c].value # Undefined =>
           imageData.px[c].normalized =
             Renormalized(imageData.px[c].value, MatrixMin, MatrixMax)
  /\ texture.created =>
       \A c \in (0..(texture.height - 1)) \X (0..(texture.width - 1)) :
         texture.data[c] =
           Renormalized(spectrogramData[texture.frameIndexForY[c[1]] + 1]
                                       [texture.binIndexForX[c[2]] + 1],
                        MatrixMin, MatrixMax)

\* C9 as the code has it: the texture path of Spectrogram3DWebGL renormalizes each
\* sampled raw magnitude with the value range of the matrix and clamps it to
\* [0, 255]; the canvas paths hand the raw code divided by 255 to the colour mapper.
C9_TextureRenormalizes ==
  /\ texture.created =>
       /\ spectrogramMin = MatrixMin
       /\ spectrogramMax = MatrixMax
       /\ \A c \in (0..(texture.height - 1)) \X (0..(texture.width - 1)) :
            /\ texture.data[c] \in 0..ByteMax
            /\ texture.data[c] =
                 Renormalized(spectrogramData[texture.frameIndexForY[c[1]] + 1]
                                             [texture.binIndexForX[c[2]] + 1],
                              MatrixMin, MatrixMax)
  /\ imageData.branch = "full" =>
       \A c \in Cells : imageData.px[c].normalized = imageData.px[c].value

\* a texture of a matrix whose smallest value is not 0 and whose range is not 255
C9_Witness ==
  /\ texture.created
  /\ spectrogramMin > 0
  /\ spectrogramMax - spectrogramMin \in 2..(ByteMax - 1)

-----------------------------------------------------------------------------
(* Properties of the palettes *)

GradientModes == {2, 3, 5}

\* the segment of the palette t = n / TUnits falls in, and the formula of a segment
PaletteSegmentOf(mode, n) ==
  CASE mode = 2 -> InfernoSegmentOf(n, TUnits)
    [] mode = 3 -> ForestSegmentOf(n, TUnits)
    [] mode = 5 -> MountainsSegmentOf(n, TUnits)

PaletteSegment(mode, i, n) ==
  CASE mode = 2 -> InfernoSegment(i, n, TUnits)
    [] mode = 3 -> ForestSegment(i, n, TUnits)
    [] mode = 5 -> MountainsSegment(i, n, TUnits)

PaletteSegments(mode) == CASE mode = 2 -> 4 [] mode = 3 -> 2 [] mode = 5 -> 3

\* t is where segment i of the palette starts
StartsSegment(mode, i, n) ==
  /\ i \in 2..PaletteSegments(mode)
  /\ PaletteSegmentOf(mode, n) = i
  /\ PaletteSegmentOf(mode, n - 1) = i - 1

\* C10 as stated: at every threshold of a gradient palette the colour at the start
\* of a segment is the colour at the end of the segment before it, and the colours
\* of t = 0 and t = 1 are the first and the last control colour.
C10_ContinuousAtThresholds ==
  (colorOut.fn = "palette" /\ colorOut.mode \in GradientModes) =>
    LET i == PaletteSegmentOf(colorOut.mode, colorT)
    IN /\ StartsSegment(colorOut.mode, i, colorT) =>
            colorOut.rgb = PaletteSegment(colorOut.mode, i - 1, colorT)
       /\ colorT = 0 => colorOut.rgb = PaletteSegment(colorOut.mode, 1, 0)
       /\ colorT = TUnits =>
            colorOut.rgb = PaletteSegment(colorOut.mode, PaletteSegments(colorOut.mode), TUnits)

\* the palettes other than colorInferno are continuous at their thresholds
ContinuousButInferno ==
  (colorOut.fn = "palette" /\ colorOut.mode \in {3, 5}) => C10_ContinuousAtThresholds

\* infernoColormap of the three.js app is continuous at its thresholds
InfernoColormapContinuous ==
  (colorOut.fn = "infernoColormap" /\ colorT > 0 /\ 5 * colorT % TUnits = 0) =>
    colorOut.rgb = InfernoColormapSegment((5 * colorT) \div TUnits, colorT, TUnits)

-----------------------------------------------------------------------------
(* Rebuilds: setFFTSize, repeated loads and the analyser node the renderer shares
   with the Player *)

MaxRebuilds == 2    \* offline renderings in flight at once while rebuilding

InitRebuild ==
  /\ Init
  /\ canvasWidth = MaxWidth
  /\ canvasHeight = MaxHeight

\* loadFullSpectrogram(this.audioBuffer) up to startRendering(), with currentFFTSize = current
StartRendering(current) ==
  LET fftSize == IF analyserNode # 0 THEN analyserNode ELSE current
  IN /\ audioBuffer' = TRUE
     /\ currentFFTSize' = fftSize
     /\ pending' = Append(pending, fftSize)

\* loadFullSpectrogram(audioBuffer) called by the application
LoadAgain ==
  /\ Len(pending) < MaxRebuilds
  /\ StartRendering(currentFFTSize)
  /\ UNCHANGED <<kind, decoded, analyserNode, buildVars, canvasVars,
                 currentPlayPosition, colorVars, transportVars, scaleVars, liveVars>>

\* setFFTSize(size) of the renderer
SetFFTSize(size) ==
  /\ Len(pending) < MaxRebuilds
  /\ IF currentFFTSize # size /\ audioBuffer /\ isFullSpectrogram
       THEN StartRendering(size)
       ELSE UNCHANGED <<audioBuffer, currentFFTSize, pending>>
  /\ UNCHANGED <<kind, decoded, analyserNode, buildVars, canvasVars,
                 currentPlayPosition, colorVars, transportVars, scaleVars, liveVars>>

\* setAnalyserNode(player.getAnalyserNode()) with a node whose fftSize is size
SetAnalyserNode(size) ==
  /\ analyserNode' = size
  /\ maxFreqBins' = size \div 2
  /\ UNCHANGED <<kind, decoded, audioBuffer, currentFFTSize, pending, spectrogramData,
                 analysed, isFullSpectrogram, spectrogramMin, spectrogramMax,
                 textureWidth, textureHeight, texture, canvasVars,
                 currentPlayPosition, colorVars, transportVars, scaleVars, liveVars>>

\* Player.setFFTSize(size) on the node the renderer holds
AnalyserSetFFTSize(size) ==
  /\ analyserNode # 0
  /\ analyserNode' = size
  /\ UNCHANGED <<kind, decoded, audioBuffer, currentFFTSize, pending, buildVars,
                 canvasVars, currentPlayPosition, colorVars, transportVars, scaleVars, liveVars>>

NextRebuild ==
  \/ LoadAgain
  \/ \E size \in FFTSizes : SetFFTSize(size)
  \/ \E size \in FFTSizes : SetAnalyserNode(size)
  \/ \E size \in FFTSizes : AnalyserSetFFTSize(size)
  \/ \E i \in 1..Len(pending) : RenderingDone(i)

SpecRebuild == InitRebuild /\ [][NextRebuild]_vars

\* a call of setFFTSize that passes the guard of the method
Resizes(size) == currentFFTSize # size /\ audioBuffer /\ isFullSpectrogram

\* C11 as stated: setFFTSize(size) with a size other than the current one, on a
\* loaded spectrogram, starts a rebuild for size and leaves currentFFTSize = size;
\* the rebuild, once it completes, installs a fresh matrix whose frames all have
\* half as many bins as the size the rebuild was started for.
C11_RebuildsForSize ==
  [][ /\ \A size \in FFTSizes :
           (Resizes(size) /\ SetFFTSize(size)) =>
             /\ pending' = Append(pending, size)
             /\ currentFFTSize' = size
      /\ \A i \in 1..Len(pending) :
           RenderingDone(i) =>
             /\ Len(spectrogramData') = Ceil(sampleCount, hopSize)
             /\ \A f \in 1..Len(spectrogramData') :
                  Len(spectrogramData'[f]) = pending[i] \div 2 ]_vars

\* without an analyser node attached setFFTSize rebuilds for the size it was given
RebuildsForSizeWithoutNode ==
  [][ \A size \in FFTSizes :
        (analyserNode = 0 /\ Resizes(size) /\ SetFFTSize(size)) =>
          /\ pending' = Append(pending, size)
          /\ currentFFTSize' = size ]_vars

-----------------------------------------------------------------------------
(* The transport: the Player of the webgl app and the playback functions   *)
(* of main.ts.  Times are counted in units of which a buffer lasts a       *)
(* multiple of SeekDen, so that every seek target is a whole number.       *)

MaxDuration == 2
MaxClock == 6
MaxAdvance == 2
MaxLoads == 1

\* seek arguments are the fractions n / SeekDen, from below 0 to above 1
SeekDen == 2
SeekNumerators == (0 - 1)..(SeekDen + 1)
Durations == {SeekDen * d : d \in 1..MaxDuration}
Apps == {"webgl", "threejs"}

\* positions handed to setPlayPosition, in thousandths
PlayPositions == {0 - 500, 0, 500, 1000, 1500}

\* the remainder operator of JavaScript: the result has the sign of the dividend
JsMod(a, b) == IF a >= 0 THEN a % b ELSE 0 - ((0 - a) % b)

\* Math.max(0, Math.min(1, normalizedPos)) for normalizedPos = n / SeekDen, as a numerator
ClampedPos_Raw(n) == n
ClampedPos(n) == Max(0, Min(SeekDen, n))

\* ---- Player (Spectrogram2D.js) ----

\* _stopSource()
StopSource(p) == [p EXCEPT !.source = FALSE, !.sourceBuffer = 0]

\* play() at context.currentTime = now
play(p, now) ==
  IF p.buffer = 0 THEN p
  ELSE LET offset == JsMod(p.pauseTime, p.buffer)
       IN [StopSource(p) EXCEPT !.source = TRUE, !.sourceBuffer = p.buffer,
                                !.startTime = now - offset, !.isPlaying = TRUE]

\* pause() at context.currentTime = now
pause(p, now) ==
  IF ~p.isPlaying \/ ~p.source THEN p
  ELSE [StopSource(p) EXCEPT !.pauseTime = now - p.startTime, !.isPlaying = FALSE]

\* stop()
stop(p) == [StopSource(p) EXCEPT !.pauseTime = 0, !.isPlaying = FALSE]

\* the fraction getCurrentPlaybackPosition() returns, as numerator and denominator
PlaybackPosition_CountingDown(p, now) ==
  IF p.buffer = 0 THEN [num |-> 0, den |-> 1]
  ELSE LET currentTime == IF p.isPlaying THEN now - p.startTime ELSE p.pauseTime
       IN [num |-> JsMod(p.buffer - JsMod(currentTime, p.buffer), p.buffer),
           den |-> p.buffer]
PlaybackPosition_Unwrapped(p, now) ==
  IF p.buffer = 0 THEN [num |-> 0, den |-> 1]
  ELSE LET currentTime == IF p.isPlaying THEN now - p.startTime ELSE p.pauseTime
       IN [num |-> currentTime, den |-> p.buffer]
PlaybackPosition(p, now) ==
  IF p.buffer = 0 THEN [num |-> 0, den |-> 1]
  ELSE LET duration == p.buffer
           currentTime == IF p.isPlaying THEN now - p.startTime ELSE p.pauseTime
       IN [num |-> JsMod(currentTime, duration), den |-> duration]

getCurrentPlaybackPosition == PlaybackPosition(player, contextTime)

\* Spectrogram2D.seekToPosition(n / SeekDen)
Spectrogram2D_seekToPosition(p, n, now) ==
  IF p.buffer = 0 THEN p
  ELSE LET newPauseTime == (ClampedPos(n) * p.buffer) \div SeekDen
           q == [p EXCEPT !.pauseTime = newPauseTime]
       IN IF q.isPlaying THEN play(q, now) ELSE q

\* ---- main.ts ----

\* stopBufferPlayback()
stopBufferPlayback(t) == [t EXCEPT !.bufferSource = FALSE, !.isPlayingBuffer = FALSE]

\* startBufferPlayback(offset) at ACTX.currentTime = now
startBufferPlayback(t, offset, now) ==
  IF t.currentBuffer = 0 \/ t.waveformDuration <= 0 THEN t
  ELSE LET safeOffset == Max(0, Min(offset, t.waveformDuration))
       IN [stopBufferPlayback(t) EXCEPT !.bufferSource = TRUE, !.pauseOffset = safeOffset,
                                        !.playStartTime = now - safeOffset,
                                        !.isPlayingBuffer = TRUE]

\* ((x % waveformDuration) + waveformDuration) % waveformDuration
Wrapped(x, duration) == JsMod(JsMod(x, duration) + duration, duration)

\* getPlaybackOffset() at ACTX.currentTime = now
getPlaybackOffset(t, now) ==
  IF t.currentBuffer = 0 \/ t.waveformDuration <= 0 THEN 0
  ELSE IF ~t.isPlayingBuffer THEN t.pauseOffset
  ELSE Wrapped(now - t.playStartTime, t.waveformDuration)

\* the fraction getPlayheadPosition() returns (waveformData is set and cleared together
\* with waveformDuration)
PlayheadPosition(t, now) ==
  IF t.currentBuffer = 0 \/ t.waveformDuration <= 0 THEN [num |-> 0, den |-> 1]
  ELSE LET offset == IF t.isPlayingBuffer THEN now - t.playStartTime ELSE t.pauseOffset
       IN IF offset <= 0 THEN [num |-> 0, den |-> 1]
          ELSE [num |-> Wrapped(offset, t.waveformDuration), den |-> t.waveformDuration]

getPlayheadPosition == PlayheadPosition(threeApp, contextTime)

\* seekToPosition(n / SeekDen) of main.ts
seekToPosition(t, n, now) ==
  IF t.currentBuffer = 0 \/ t.waveformDuration <= 0 THEN t
  ELSE LET q == [t EXCEPT !.pauseOffset = (ClampedPos(n) * t.waveformDuration) \div SeekDen]
       IN IF ~q.paused THEN startBufferPlayback(q, q.pauseOffset, now) ELSE q

\* enablePlayPauseBtn() and disablePlayPauseBtn()
enablePlayPauseBtn(t) == [t EXCEPT !.hasAudioFile = TRUE, !.paused = FALSE]
disablePlayPauseBtn(t) == [t EXCEPT !.hasAudioFile = FALSE, !.paused = FALSE]

\* togglePlayPause() at ACTX.currentTime = now
togglePlayPause(t, now) ==
  IF ~t.hasAudioFile THEN t
  ELSE LET q == [t EXCEPT !.paused = ~t.paused]
       IN IF q.paused
            THEN stopBufferPlayback([q EXCEPT !.pauseOffset = getPlaybackOffset(q, now)])
            ELSE startBufferPlayback(q, q.pauseOffset, now)

\* ---- the transport as a state machine ----

InitTransportSpec ==
  /\ InitRenderer
  /\ InitLive
  /\ kind = "2d"
  /\ decoded = [data |-> <<>>, sampleRate |-> 60]
  /\ analyserNode = 0
  /\ canvasWidth = 1
  /\ canvasHeight = 1
  /\ colorT = 0
  /\ colorOut = [fn |-> "none"]
  /\ app \in Apps
  /\ contextTime = 0
  /\ player = NewPlayer
  /\ threeApp = NewThreeApp
  /\ loads = <<>>
  /\ lastOp = [op |-> "none", n |-> 0]
  /\ InitScale

viewVars == <<rendererVarsButPosition, colorVars, scaleVars, liveVars>>
viewVarsButMesh == <<rendererVarsButPosition, colorVars, scaleVars, analyserView, animation,
                     renderLoop>>

\* the audio clock advances by dt
Tick(dt) ==
  /\ contextTime + dt <= MaxClock
  /\ contextTime' = contextTime + dt
  /\ lastOp' = [op |-> "tick", n |-> dt]
  /\ UNCHANGED <<viewVars, currentPlayPosition, app, player, threeApp, loads>>

\* loadAudioBuffer(file) / loadAudioUrl(url) up to the decoding
LoadAudioBuffer(d) ==
  /\ app = "webgl"
  /\ Len(loads) < MaxLoads
  /\ player' = [player EXCEPT !.pauseTime = 0]
  /\ loads' = Append(loads, [duration |-> d, enable |-> FALSE])
  /\ lastOp' = [op |-> "load", n |-> d]
  /\ UNCHANGED <<viewVars, currentPlayPosition, app, contextTime, threeApp>>

RemoveAt(seq, i) == SubSeq(seq, 1, i - 1) \o SubSeq(seq, i + 1, Len(seq))

\* this.buffer = await this.context.decodeAudioData(arrayBuffer)
LoadAudioDecoded(i) ==
  /\ app = "webgl"
  /\ player' = [player EXCEPT !.buffer = loads[i].duration]
  /\ loads' = RemoveAt(loads, i)
  /\ lastOp' = [op |-> "decoded", n |-> loads[i].duration]
  /\ UNCHANGED <<viewVars, currentPlayPosition, app, contextTime, threeApp>>

Play ==
  /\ app = "webgl"
  /\ player' = play(player, contextTime)
  /\ lastOp' = [op |-> "play", n |-> 0]
  /\ UNCHANGED <<viewVars, currentPlayPosition, app, contextTime, threeApp, loads>>

Pause ==
  /\ app = "webgl"
  /\ player' = pause(player, contextTime)
  /\ lastOp' = [op |-> "pause", n |-> 0]
  /\ UNCHANGED <<viewVars, currentPlayPosition, app, contextTime, threeApp, loads>>

Stop ==
  /\ app = "webgl"
  /\ player' = stop(player)
  /\ lastOp' = [op |-> "stop", n |-> 0]
  /\ UNCHANGED <<viewVars, currentPlayPosition, app, contextTime, threeApp, loads>>

\* handleClick -> seekToPosition(n / SeekDen) of Spectrogram2D
SeekToPosition(n) ==
  /\ app = "webgl"
  /\ player.buffer # 0
  /\ player' = Spectrogram2D_seekToPosition(player, n, contextTime)
  /\ lastOp' = [op |-> "seek", n |-> n]
  /\ UNCHANGED <<viewVars, currentPlayPosition, app, contextTime, threeApp, loads>>

\* setPlayPosition(position): this.currentPlayPosition = Math.max(0, Math.min(1, position))
SetPlayPosition(position) ==
  /\ app = "webgl"
  /\ currentPlayPosition' = Max(0, Min(1000, position))
  /\ lastOp' = [op |-> "setPlayPosition", n |-> position]
  /\ UNCHANGED <<viewVars, app, contextTime, player, threeApp, loads>>

\* the file input and the drop zone: await playFile(file); enablePlayPauseBtn()
FileChosen(d) ==
  /\ app = "threejs"
  /\ Len(loads) < MaxLoads
  /\ threeApp' = stopBufferPlayback(threeApp)
  /\ loads' = Append(loads, [duration |-> d, enable |-> TRUE])
  /\ lastOp' = [op |-> "load", n |-> d]
  /\ UNCHANGED <<viewVars, currentPlayPosition, app, contextTime, player>>

\* a demo button: void playFromUrl(url, label); enablePlayPauseBtn()
DemoClicked(d) ==
  /\ app = "threejs"
  /\ Len(loads) < MaxLoads
  /\ threeApp' = enablePlayPauseBtn(stopBufferPlayback(threeApp))
  /\ loads' = Append(loads, [duration |-> d, enable |-> FALSE])
  /\ lastOp' = [op |-> "load", n |-> d]
  /\ UNCHANGED <<viewVars, currentPlayPosition, app, contextTime, player>>

\* playFile / playFromUrl after decodeAudioData resolved
PlayFileDecoded(i) ==
  /\ app = "threejs"
  /\ LET d == loads[i].duration
         installed == [threeApp EXCEPT !.currentBuffer = d, !.waveformDuration = d,
                                       !.pauseOffset = 0]
         started == startBufferPlayback(installed, 0, contextTime)
     IN threeApp' = IF loads[i].enable THEN enablePlayPauseBtn(started) ELSE started
  /\ loads' = RemoveAt(loads, i)
  /\ lastOp' = [op |-> "decoded", n |-> loads[i].duration]
  /\ UNCHANGED <<viewVars, currentPlayPosition, app, contextTime, player>>

\* the play/pause button and the space bar
TogglePlayPause ==
  /\ app = "threejs"
  /\ threeApp' = togglePlayPause(threeApp, contextTime)
  /\ lastOp' = [op |-> "toggle", n |-> 0]
  /\ UNCHANGED <<viewVars, currentPlayPosition, app, contextTime, player, loads>>

\* the stop button
StopClicked ==
  /\ app = "threejs"
  /\ threeApp' = disablePlayPauseBtn([stopBufferPlayback(threeApp) EXCEPT
                                        !.pauseOffset = 0, !.playStartTime = 0])
  /\ threeMesh' = clearHeights(threeMesh)
  /\ lastOp' = [op |-> "stop", n |-> 0]
  /\ UNCHANGED <<viewVarsButMesh, currentPlayPosition, app, contextTime, player, loads>>

\* the microphone button while the microphone is off: useMicrophone(); disablePlayPauseBtn()
MicClicked ==
  /\ app = "threejs"
  /\ threeApp' = disablePlayPauseBtn([stopBufferPlayback(threeApp) EXCEPT
                                        !.waveformDuration = 0, !.currentBuffer = 0,
                                        !.pauseOffset = 0, !.playStartTime = 0])
  /\ lastOp' = [op |-> "mic", n |-> 0]
  /\ UNCHANGED <<viewVars, currentPlayPosition, app, contextTime, player, loads>>

\* a click on the waveform canvas of main.ts: seekToPosition(n / SeekDen)
WaveformClicked(n) ==
  /\ app = "threejs"
  /\ threeApp.currentBuffer # 0 /\ threeApp.waveformDuration > 0
  /\ threeApp' = seekToPosition(threeApp, n, contextTime)
  /\ lastOp' = [op |-> "seek", n |-> n]
  /\ UNCHANGED <<viewVars, currentPlayPosition, app, contextTime, player, loads>>

NextTransport ==
  \/ \E dt \in 1..MaxAdvance : Tick(dt)
  \/ \E d \in Durations : LoadAudioBuffer(d)
  \/ \E i \in 1..Len(loads) : LoadAudioDecoded(i)
  \/ Play
  \/ Pause
  \/ Stop
  \/ \E n \in SeekNumerators : SeekToPosition(n)
  \/ \E position \in PlayPositions : SetPlayPosition(position)
  \/ \E d \in Durations : FileChosen(d)
  \/ \E d \in Durations : DemoClicked(d)
  \/ \E i \in 1..Len(loads) : PlayFileDecoded(i)
  \/ TogglePlayPause
  \/ StopClicked
  \/ MicClicked
  \/ \E n \in SeekNumerators : WaveformClicked(n)

SpecTransport == InitTransportSpec /\ [][NextTransport]_vars

\* the position the transport of the running application reports
ReportedPosition == IF app = "webgl" THEN getCurrentPlaybackPosition ELSE getPlayheadPosition

\* the transport has a buffer and is playing it
Playing ==
  IF app = "webgl" THEN player.buffer # 0 /\ player.isPlaying
  ELSE threeApp.currentBuffer # 0 /\ threeApp.isPlayingBuffer

\* a fraction num / den that lies in [0, 1]
InUnitInterval(q) == q.den > 0 /\ 0 <= q.num /\ q.num <= q.den

\* C12: in every transport state, after any sequence of load, play, pause, stop, seek and
\* clock advance, the position Player.getCurrentPlaybackPosition and getPlayheadPosition
\* report, and the currentPlayPosition setPlayPosition stores, lie in [0, 1].
C12_PositionInUnitInterval ==
  /\ InUnitInterval(getCurrentPlaybackPosition)
  /\ InUnitInterval(getPlayheadPosition)
  /\ 0 <= currentPlayPosition /\ currentPlayPosition <= 1000

\* the Player has played its buffer through more than once and reports a position inside it
C12_Witness ==
  /\ app = "webgl"
  /\ Playing
  /\ contextTime - player.startTime > player.buffer
  /\ getCurrentPlaybackPosition.num > 0

\* clamp(n / SeekDen, 0, 1) as a numerator over SeekDen
ClampToUnit(n) == IF n < 0 THEN 0 ELSE IF n > SeekDen THEN SeekDen ELSE n

\* the reported position is the fraction m / SeekDen
ReportsFraction(m) == ReportedPosition.num * SeekDen = m * ReportedPosition.den

\* C13 as stated: immediately after seek(f), playing or paused, the reported position
\* equals clamp(f, 0, 1), for every f including f < 0, f = 1 and f > 1.
C13_SeekReportsClamped ==
  lastOp.op = "seek" => ReportsFraction(ClampToUnit(lastOp.n))

\* the Player alone: immediately after seek(f) the reported position is clamp(f, 0, 1)
\* when that is below 1, and 0 when f >= 1 (the end of the looping buffer is its start)
PlayerSeekReportsClampedModuloLoop ==
  (app = "webgl" /\ lastOp.op = "seek") =>
    ReportsFraction(IF ClampToUnit(lastOp.n) = SeekDen THEN 0 ELSE ClampToUnit(lastOp.n))

\* main.ts plays a buffer although its play/pause state says paused
PlayingWhilePaused == app = "threejs" /\ threeApp.isPlayingBuffer /\ threeApp.paused

\* the time the running source has played for, and the length of the buffer it loops
Elapsed ==
  IF app = "webgl" THEN contextTime - player.startTime
  ELSE contextTime - threeApp.playStartTime
LoopLength == IF app = "webgl" THEN player.sourceBuffer ELSE threeApp.currentBuffer

\* the transport plays the buffer it reports positions of: no load came in since the
\* playback started
PlayingLoaded ==
  /\ Playing
  /\ app = "webgl" => player.sourceBuffer = player.buffer

\* C14: while the transport is playing and no seek, pause, stop or load intervenes, an
\* advance of the audio clock never lowers the reported position unless the source
\* passed the end of its buffer on the way, and a source that is exactly at the end of
\* its buffer reports 0.
C14_MonotoneUpToLoop ==
  [][ (PlayingLoaded /\ contextTime' > contextTime) =>
        /\ \/ ReportedPosition'.num * ReportedPosition.den >=
                ReportedPosition.num * ReportedPosition'.den
           \/ Elapsed' \div LoopLength > Elapsed \div LoopLength
        /\ (Elapsed' % LoopLength = 0) => ReportedPosition'.num = 0 ]_vars

\* the clock has just carried a playing source over the end of its buffer, to position 0
C14_Witness ==
  /\ PlayingLoaded
  /\ lastOp.op = "tick"
  /\ Elapsed >= LoopLength
  /\ Elapsed - lastOp.n < LoopLength
  /\ ReportedPosition.num = 0

-----------------------------------------------------------------------------
(* Claims about the offline builder and the analyser, continued *)

\* the distances between the windows of successive frames of the installed matrix
HopsUsed ==
  {analysed[i + 1].startIndex - analysed[i].startIndex : i \in 1..(Len(analysed) - 1)}

\* C15 as stated: the hop size the offline builder uses equals
\* round(sampleRate / targetFrameRate), with target frame rate 30.
C15_HopIsRounded ==
  \A hop \in HopsUsed : hop = Round(decoded.sampleRate, TargetFrameRate)

\* C15 as the code has it: the hop size the offline builder uses equals
\* ceil(sampleRate / targetFrameRate), with target frame rate 30.
C15_HopIsCeiling ==
  \A hop \in HopsUsed : hop = Ceil(decoded.sampleRate, TargetFrameRate)

\* a matrix of two frames built at a sample rate whose thirtieth rounds down
C15_Witness ==
  /\ isFullSpectrogram
  /\ HopsUsed # {}
  /\ Round(decoded.sampleRate, TargetFrameRate) < Ceil(decoded.sampleRate, TargetFrameRate)

\* spectrogramMin and spectrogramMax are the least and the greatest code of the matrix
ExactExtremes ==
  /\ spectrogramMin \in AllValues(spectrogramData)
  /\ spectrogramMax \in AllValues(spectrogramData)
  /\ \A v \in AllValues(spectrogramData) : spectrogramMin <= v /\ v <= spectrogramMax

ExtendsPastEnd(c) == c.startIndex + c.windowSize > sampleCount

\* C17: when a frame's window extends past the end of the sample buffer, every window
\* position past the end holds amplitude 0 in the analyser's input, and the analyser
\* reads no sample index greater than or equal to the buffer length.
C17_ZeroPaddedPastEnd ==
  \A i \in 1..Len(analysed) :
    LET c == analysed[i]
        samples == CopySamples(decoded.data, c.startIndex, hopSize, c.fftSize)
    IN /\ \A offset \in c.reads : offset < sampleCount
       /\ ExtendsPastEnd(c) =>
            \A n \in 0..(c.fftSize - 1) :
              c.startIndex + n >= sampleCount => samples[n] = 0

\* the last frame of a loud buffer whose window runs over the end of the buffer
C17_Witness ==
  /\ isFullSpectrogram
  /\ \E i \in 1..Len(analysed) :
       /\ ExtendsPastEnd(analysed[i])
       /\ analysed[i].reads # {}
       /\ \A offset \in analysed[i].reads : decoded.data[offset + 1] # 0

\* the window call c analyses holds nothing but zeros
AllZeroWindow(c) ==
  \A n \in 0..(c.fftSize - 1) :
    CopySamples(decoded.data, c.startIndex, hopSize, c.fftSize)[n] = 0

\* C18: for every FFT size and every hop size, the frame analysed from a window whose
\* samples are all zero holds the floor code 0 in every one of its fftSize / 2 bins.
C18_SilenceIsFloor ==
  isFullSpectrogram =>
    /\ Len(spectrogramData) = Len(analysed)
    /\ \A i \in 1..Len(analysed) :
         AllZeroWindow(analysed[i]) =>
           /\ Len(spectrogramData[i]) = analysed[i].fftSize \div 2
           /\ \A b \in 1..Len(spectrogramData[i]) : spectrogramData[i][b] = 0

\* a silent buffer of several frames analysed at the larger FFT size
C18_Witness ==
  /\ isFullSpectrogram
  /\ Len(analysed) >= 2
  /\ \A i \in 1..Len(analysed) :
       AllZeroWindow(analysed[i]) /\ analysed[i].fftSize = 4 /\ analysed[i].windowSize >= 3

-----------------------------------------------------------------------------
(* The controls of the Player: FFT size steps next to load, play, pause, stop *)

MinFFTSize == 32
MaxFFTSize == 32768

\* Player.setFFTSize(size)
setFFTSize(p, size) == [p EXCEPT !.fftSize = size]

\* increaseFrequencyBins(): the Player afterwards and the value returned
increaseFrequencyBins_Unbounded(p) ==
  [player |-> setFFTSize(p, p.fftSize * 2), returned |-> TRUE]
increaseFrequencyBins(p) ==
  LET currentSize == p.fftSize
      newSize == currentSize * 2
  IN IF newSize <= MaxFFTSize
       THEN [player |-> setFFTSize(p, newSize), returned |-> TRUE]
       ELSE [player |-> p, returned |-> FALSE]

\* decreaseFrequencyBins(): the Player afterwards and the value returned; for a whole
\* currentSize the test currentSize / 2 >= 32 passes exactly when the whole half does
decreaseFrequencyBins(p) ==
  LET currentSize == p.fftSize
      newSize == currentSize \div 2
  IN IF newSize >= MinFFTSize
       THEN [player |-> setFFTSize(p, newSize), returned |-> TRUE]
       ELSE [player |-> p, returned |-> FALSE]

IncreaseFrequencyBins ==
  /\ app = "webgl"
  /\ player' = increaseFrequencyBins(player).player
  /\ lastOp' = [op |-> "increase", n |-> IF increaseFrequencyBins(player).returned THEN 1 ELSE 0]
  /\ UNCHANGED <<viewVars, currentPlayPosition, app, contextTime, threeApp, loads>>

DecreaseFrequencyBins ==
  /\ app = "webgl"
  /\ player' = decreaseFrequencyBins(player).player
  /\ lastOp' = [op |-> "decrease", n |-> IF decreaseFrequencyBins(player).returned THEN 1 ELSE 0]
  /\ UNCHANGED <<viewVars, currentPlayPosition, app, contextTime, threeApp, loads>>

InitPlayerControls == InitTransportSpec /\ app = "webgl"

NextPlayerControls ==
  \/ IncreaseFrequencyBins
  \/ DecreaseFrequencyBins
  \/ \E d \in Durations : LoadAudioBuffer(d)
  \/ \E i \in 1..Len(loads) : LoadAudioDecoded(i)
  \/ Play
  \/ Pause
  \/ Stop

SpecPlayerControls == InitPlayerControls /\ [][NextPlayerControls]_vars

\* n is a power of two
RECURSIVE IsPowerOfTwo(_)
IsPowerOfTwo(n) == IF n <= 1 THEN n = 1 ELSE n % 2 = 0 /\ IsPowerOfTwo(n \div 2)

\* C19: starting from the initial FFT size 1024, after any sequence of
\* increaseFrequencyBins and decreaseFrequencyBins calls the analyser FFT size is a power
\* of two in [32, 32768]; a call that would leave this range returns false and leaves the
\* size unchanged, any other call returns true and doubles or halves the size.
C19_FFTSizeInRange ==
  /\ [](/\ IsPowerOfTwo(player.fftSize)
        /\ MinFFTSize <= player.fftSize
        /\ player.fftSize <= MaxFFTSize)
  /\ [][ /\ IncreaseFrequencyBins =>
              IF player.fftSize * 2 > MaxFFTSize
                THEN player'.fftSize = player.fftSize /\ lastOp'.n = 0
                ELSE player'.fftSize = player.fftSize * 2 /\ lastOp'.n = 1
         /\ DecreaseFrequencyBins =>
              IF player.fftSize < 2 * MinFFTSize
                THEN player'.fftSize = player.fftSize /\ lastOp'.n = 0
                ELSE player'.fftSize * 2 = player.fftSize /\ lastOp'.n = 1 ]_vars

\* increaseFrequencyBins was refused at the largest size
C19_Witness ==
  /\ lastOp.op = "increase"
  /\ lastOp.n = 0
  /\ player.fftSize = MaxFFTSize

-----------------------------------------------------------------------------
(* Frequency axis mappings as exact numbers: applyScaleMode of the canvas  *)
(* renderers, applyFrequencyScale of main.ts and of the sonogram vertex    *)
(* shader.  The argument is t = n / ScaleDen.  A result is one of          *)
(*   "rational":  num / den                                                *)
(*   "log":       log(an / ad) / log(bn / bd)                              *)
(*   "exp":       ((bn / bd)^(tn / td) - 1) / (bn / bd - 1)                *)

ScaleDen == 8
LogScaleBase == 256
\* LOG_SCALE_BASE^(1 / ScaleDen)
LogScaleRoot == 2
ShaderMaxFreq == 22050
\* ACTX.sampleRate / 2 at the usual hardware rates
Nyquists == {22050, 24000}
ThreeScaleModes == {"linear", "log", "mel"}

Rational(num, den) == [form |-> "rational", num |-> num, den |-> den]
LogRatio(an, ad, bn, bd) == [form |-> "log", an |-> an, ad |-> ad, bn |-> bn, bd |-> bd]
ExpRatio(bn, bd, tn, td) == [form |-> "exp", bn |-> bn, bd |-> bd, tn |-> tn, td |-> td]

\* clamp(v, 0, 1): an "exp" number leaves [0, 1] exactly when its exponent does
Clamp01(v) ==
  IF v.form = "rational"
    THEN IF v.num < 0 THEN Rational(0, 1) ELSE IF v.num > v.den THEN Rational(1, 1) ELSE v
  ELSE IF v.form = "exp"
    THEN IF v.tn < 0 THEN Rational(0, 1) ELSE IF v.tn > v.td THEN Rational(1, 1) ELSE v
  ELSE v

\* applyScaleMode(n / ScaleDen) with this.scaleMode = mode; linearToMel for mode 2:
\* 2595 log10(1 + f / 700) is 2595 (log10(700 + f) - log10(700)), so the quotient of
\* mel differences is a quotient of logarithms
applyScaleMode(mode, n) ==
  IF mode = 0
    THEN LogRatio(minHz * ScaleDen + n * (maxHz - minHz), minHz * ScaleDen, maxHz, minHz)
  ELSE IF mode = 2
    THEN LogRatio((MelBreakHz + minHz) * ScaleDen + n * (maxHz - minHz),
                  (MelBreakHz + minHz) * ScaleDen, MelBreakHz + maxHz, MelBreakHz + minHz)
  ELSE Rational(n, ScaleDen)

\* Variant: the logarithmic curve runs the other way, base^(1 - t)
applyFrequencyScale_Decaying(n, mode, nyquist) ==
  IF mode = "linear" THEN Rational(n, ScaleDen)
  ELSE IF mode = "log" THEN Rational(LogScaleBase, Pow(LogScaleRoot, n))
  ELSE Clamp01(ExpRatio(MelBreakHz + nyquist, MelBreakHz, n, ScaleDen))

\* applyFrequencyScale(n / ScaleDen, mode) of main.ts: Math.pow(256, t - 1) is
\* 2^n / 256; 700 (10^(t melMax / 2595) - 1) / nyquist is (B^t - 1) / (B - 1) with
\* B = 1 + nyquist / 700
applyFrequencyScale(n, mode, nyquist) ==
  IF mode = "linear" THEN Rational(n, ScaleDen)
  ELSE IF mode = "log" THEN Rational(Pow(LogScaleRoot, n), LogScaleBase)
  ELSE Clamp01(ExpRatio(MelBreakHz + nyquist, MelBreakHz, n, ScaleDen))

\* applyFrequencyScale(n / ScaleDen) of the vertex shader with the uniform scaleMode = mode
shaderApplyFrequencyScale(mode, n) ==
  IF mode = 1 THEN Rational(n, ScaleDen)
  ELSE IF mode = 2
    THEN Clamp01(ExpRatio(MelBreakHz + ShaderMaxFreq, MelBreakHz, n, ScaleDen))
  ELSE Rational(Pow(LogScaleRoot, n), LogScaleBase)

InitScaleSpec ==
  /\ InitRenderer
  /\ InitLive
  /\ kind = "2d"
  /\ decoded = [data |-> <<>>, sampleRate |-> 60]
  /\ analyserNode = 0
  /\ canvasWidth = 1
  /\ canvasHeight = 1
  /\ colorT = 0
  /\ colorOut = [fn |-> "none"]
  /\ app \in Apps
  /\ contextTime = 0
  /\ player = NewPlayer
  /\ threeApp = NewThreeApp
  /\ loads = <<>>
  /\ lastOp = [op |-> "none", n |-> 0]
  /\ scaleT \in {p \in (0..ScaleDen) \X (0..ScaleDen) : p[1] <= p[2]}
  /\ scaleOut = [fn |-> "none"]

\* applyScaleMode at both arguments, in a canvas renderer
ApplyScaleModeCall ==
  /\ app = "webgl"
  /\ scaleOut' = [fn |-> "applyScaleMode", mode |-> scaleMode,
                  lo |-> applyScaleMode(scaleMode, scaleT[1]),
                  hi |-> applyScaleMode(scaleMode, scaleT[2])]
  /\ UNCHANGED <<rendererVarsButPosition, currentPlayPosition, colorVars, transportVars,
                 scaleT, liveVars>>

\* the vertex shader at both arguments, with the uniform set from this.scaleMode
ShaderApplyFrequencyScaleCall ==
  /\ app = "webgl"
  /\ scaleOut' = [fn |-> "shader", mode |-> scaleMode,
                  lo |-> shaderApplyFrequencyScale(scaleMode, scaleT[1]),
                  hi |-> shaderApplyFrequencyScale(scaleMode, scaleT[2])]
  /\ UNCHANGED <<rendererVarsButPosition, currentPlayPosition, colorVars, transportVars,
                 scaleT, liveVars>>

\* applyFrequencyScale(t, mode) of main.ts at both arguments
ApplyFrequencyScaleCall(mode, nyquist) ==
  /\ app = "threejs"
  /\ scaleOut' = [fn |-> "applyFrequencyScale", mode |-> mode,
                  lo |-> applyFrequencyScale(scaleT[1], mode, nyquist),
                  hi |-> applyFrequencyScale(scaleT[2], mode, nyquist)]
  /\ UNCHANGED <<rendererVarsButPosition, currentPlayPosition, colorVars, transportVars,
                 scaleT, liveVars>>

NextScale ==
  \/ \E m \in ScaleModes : SetScaleMode(m)
  \/ ApplyScaleModeCall
  \/ ShaderApplyFrequencyScaleCall
  \/ \E mode \in ThreeScaleModes, nyquist \in Nyquists : ApplyFrequencyScaleCall(mode, nyquist)

SpecScale == InitScaleSpec /\ [][NextScale]_vars

\* comparisons of two results of one mapping ("log" and "exp" with one base above 1)
IsZero(v) ==
  CASE v.form = "rational" -> v.num = 0
    [] v.form = "log" -> v.an = v.ad
    [] v.form = "exp" -> v.tn = 0
IsOne(v) ==
  CASE v.form = "rational" -> v.num = v.den
    [] v.form = "log" -> v.an * v.bd = v.bn * v.ad
    [] v.form = "exp" -> v.tn = v.td
AtMost(v, w) ==
  /\ v.form = w.form
  /\ CASE v.form = "rational" -> v.num * w.den <= w.num * v.den
       [] v.form = "log" -> /\ v.bn = w.bn /\ v.bd = w.bd /\ v.bn > v.bd
                            /\ v.an * w.ad <= w.an * v.ad
       [] v.form = "exp" -> /\ v.bn = w.bn /\ v.bd = w.bd /\ v.bn > v.bd
                            /\ v.tn * w.td <= w.tn * v.td

\* the last lookup went through base^(t - 1), the logarithmic curve of main.ts and of
\* the shader
ThroughPower ==
  \/ scaleOut.fn = "applyFrequencyScale" /\ scaleOut.mode = "log"
  \/ scaleOut.fn = "shader" /\ scaleOut.mode = 0

\* C20 as stated: for every scale mode implemented the frequency-axis mapping is
\* monotonic non-decreasing in t over [0, 1] and maps t = 0 to 0 and t = 1 to 1.
C20_MonotoneFromZeroToOne ==
  scaleOut.fn # "none" =>
    /\ AtMost(scaleOut.lo, scaleOut.hi)
    /\ scaleT[1] = 0 => IsZero(scaleOut.lo)
    /\ scaleT[2] = ScaleDen => IsOne(scaleOut.hi)

\* C20 as the code has it: every mapping is monotonic non-decreasing in t over [0, 1]
\* and maps t = 1 to 1; t = 0 is mapped to 0 by all of them but the logarithmic curve of
\* main.ts and of the shader, 256^(t - 1), which maps it to 1 / 256.
C20_MonotoneUpToAnchor ==
  scaleOut.fn # "none" =>
    /\ AtMost(scaleOut.lo, scaleOut.hi)
    /\ scaleT[1] = 0 =>
         IF ThroughPower THEN scaleOut.lo = Rational(1, LogScaleBase)
         ELSE IsZero(scaleOut.lo)
    /\ scaleT[2] = ScaleDen => IsOne(scaleOut.hi)

\* the logarithmic curve of main.ts looked up at both ends of [0, 1]
C20_Witness ==
  /\ scaleOut.fn = "applyFrequencyScale"
  /\ scaleOut.mode = "log"
  /\ scaleT = <<0, ScaleDen>>

-----------------------------------------------------------------------------
(* Claims about pausing and seeking *)

\* the transport is paused as its owner sees it: the Player is not playing, the
\* play/pause state of main.ts says paused
Paused == IF app = "webgl" THEN ~player.isPlaying ELSE threeApp.paused

\* the reported position is the same fraction before and after the step
SamePosition ==
  ReportedPosition'.num * ReportedPosition.den = ReportedPosition.num * ReportedPosition'.den

\* the step resumes a paused transport
Resumes == Paused /\ (Play \/ TogglePlayPause) /\ ~Paused'

\* the Player alone: a paused Player reports one position while the clock advances,
\* play resumes from it, and pause on a Player that is not playing changes no field
PlayerPauseFreezes ==
  [][ app = "webgl" =>
        /\ (Paused /\ contextTime' > contextTime) => SamePosition
        /\ Resumes => SamePosition
        /\ (~player.isPlaying /\ Pause) => player' = player ]_vars

\* C21: from a pause until the next play, seek, stop or load the reported position
\* stays constant while the audio clock advances, the following play resumes from
\* exactly that position, and pause issued while not playing changes nothing.
C21_PauseFreezes ==
  [][ /\ (Paused /\ contextTime' > contextTime) => SamePosition
      /\ Resumes => SamePosition
      /\ (app = "webgl" /\ ~player.isPlaying /\ Pause) => player' = player ]_vars


-----------------------------------------------------------------------------
(* The live view of the webgl app: every displayed frame the analyser's    *)
(* bins are read into AnalyserView.freqByteData and uploaded as one row of *)
(* the texture, while the FFT size buttons change the analyser.            *)

TEXTURE_HEIGHT == 256

\* AnalyserNode.getByteFrequencyData(array): the number of elements written; bins past
\* the end of the array are dropped, elements past the bin count are left alone
getByteFrequencyData(p, length) == Min(length, frequencyBinCount(p))

\* AnalyserView.doFrequencyAnalysis() with analysisType the 3D sonogram, drawGL() up to
\* the row upload and the advance of yoffset
doFrequencyAnalysis(view, p) ==
  [view EXCEPT !.filled = getByteFrequencyData(p, view.freqByteData),
               !.uploaded = view.freqByteData,
               !.yoffset = (view.yoffset + 1) % TEXTURE_HEIGHT]

\* one displayed frame: draw() of the application calls doFrequencyAnalysis()
DoFrequencyAnalysis ==
  /\ app = "webgl"
  /\ analyserView' = doFrequencyAnalysis(analyserView, player)
  /\ lastOp' = [op |-> "doFrequencyAnalysis", n |-> analyserView'.filled]
  /\ UNCHANGED <<rendererVars_NoTransport, colorVars, scaleVars, app, contextTime, player,
                 threeApp, loads, animation, renderLoop, threeMesh>>

InitLiveView == InitPlayerControls

NextLiveView ==
  \/ IncreaseFrequencyBins
  \/ DecreaseFrequencyBins
  \/ DoFrequencyAnalysis

SpecLiveView == InitLiveView /\ [][NextLiveView]_vars

\* C22: after any sequence of increaseFrequencyBins / decreaseFrequencyBins in the WebGL
\* app, the frame buffer AnalyserView.freqByteData that doFrequencyAnalysis fills and
\* uploads has a length equal to half the analyser's current FFT size.
C22_FrameBufferIsHalfFFTSize ==
  analyserView.freqByteData * 2 = player.fftSize

\* the frame buffer keeps the length it got in init()
FrameBufferKeepsInitialLength ==
  analyserView.freqByteData = PlayerFFTSize \div 2

\* a frame was analysed after the FFT size was doubled: only half of the bins were read
FrameAfterIncrease ==
  /\ lastOp.op = "doFrequencyAnalysis"
  /\ player.fftSize = 2 * PlayerFFTSize
  /\ analyserView.filled = PlayerFFTSize \div 2

-----------------------------------------------------------------------------
(* Claims about rebuilds that overlap *)

\* every frame of the installed matrix has half as many bins as currentFFTSize
MatrixIsForCurrentSize ==
  \A f \in 1..Len(spectrogramData) : Len(spectrogramData[f]) = currentFFTSize \div 2

\* C23: when setFFTSize or loadFullSpectrogram is invoked again while an earlier
\* rebuild's offline rendering is pending, then once all pending rebuilds have completed,
\* in whatever order, the installed matrix is the one built for the most recent request
\* and its bin count equals currentFFTSize / 2.
C23_LastRequestWins ==
  (pending = <<>> /\ isFullSpectrogram) => MatrixIsForCurrentSize

-----------------------------------------------------------------------------
(* Claims about what a seek and a load do to the transport *)

\* a buffer source is started and not stopped
SourcePlaying == IF app = "webgl" THEN player.isPlaying ELSE threeApp.isPlayingBuffer

\* a seek of either application
Seeks == \E n \in SeekNumerators : SeekToPosition(n) \/ WaveformClicked(n)

\* C24: a seek never changes the transport state: issued while playing it leaves the
\* transport playing, issued while paused or after stop it leaves the transport not
\* playing (no buffer source is started), in the Player and in the three.js transport.
C24_SeekKeepsTransportState ==
  [][ Seeks => (SourcePlaying' <=> SourcePlaying) ]_vars

\* the seek of the Player keeps the transport state
PlayerSeekKeepsTransportState ==
  [][ (app = "webgl" /\ Seeks) => (player'.isPlaying <=> player.isPlaying) ]_vars

\* the seek of main.ts keeps a playing transport playing and a paused one silent
ThreeSeekKeepsPlayingAndPaused ==
  [][ (app = "threejs" /\ Seeks /\ (threeApp.isPlayingBuffer \/ threeApp.paused)) =>
        (threeApp'.isPlayingBuffer <=> threeApp.isPlayingBuffer) ]_vars

\* C25: in the three.js app, in every reachable state paused = true implies
\* isPlayingBuffer = false: no buffer source plays while the transport is paused, under
\* any interleaving of play/pause toggles with the completion of playFile / playFromUrl.
C25_PausedIsSilent ==
  (app = "threejs" /\ threeApp.paused) => ~threeApp.isPlayingBuffer

\* while no load is in flight a toggle leaves paused and isPlayingBuffer opposite
ToggleWithoutLoadKeepsThemOpposite ==
  [][ (TogglePlayPause /\ loads = <<>> /\ threeApp.hasAudioFile /\ threeApp.currentBuffer # 0
       /\ (threeApp.paused <=> ~threeApp.isPlayingBuffer)) =>
        (threeApp'.paused <=> ~threeApp'.isPlayingBuffer) ]_vars

-----------------------------------------------------------------------------
(* The sources of main.ts: the microphone, the files and the demo tracks,  *)
(* with the requests that are awaited (getUserMedia, fetch and             *)
(* decodeAudioData) resolving in any order.  A track is named by its       *)
(* duration; threeApp carries the microphone, the status label and the     *)
(* active demo button next to the transport variables.                     *)

MaxOverlap == 2     \* requests awaited at once

\* the status label: its text and, for "File", the track it names
Status(text, track) == [text |-> text, track |-> track]

NewSources ==
  NewThreeApp @@ [micSource |-> FALSE, micActive |-> FALSE,
                  status |-> Status("Select a source", 0), activeDemo |-> 0]

setStatus(t, text, track) == [t EXCEPT !.status = Status(text, track)]
setMicActive(t, active) == [t EXCEPT !.micActive = active]
setActiveDemoButton(t, d) == [t EXCEPT !.activeDemo = d]

\* disconnectSources(): mediaStream is set and cleared together with micSource
disconnectSources(t) == [stopBufferPlayback(t) EXCEPT !.micSource = FALSE]

\* useMicrophone() up to the first await
useMicrophone(t) ==
  [disconnectSources(t) EXCEPT !.waveformDuration = 0, !.currentBuffer = 0,
                               !.pauseOffset = 0, !.playStartTime = 0]

\* useMicrophone() after getUserMedia resolved
microphoneGranted(t) == setStatus([t EXCEPT !.micSource = TRUE], "Source: microphone", 0)

\* playFile / playFromUrl after decodeAudioData resolved with the track of duration d
trackDecoded(t, d, now) ==
  setStatus(startBufferPlayback([t EXCEPT !.currentBuffer = d, !.waveformDuration = d,
                                          !.pauseOffset = 0], 0, now),
            "File", d)

InitSources ==
  /\ InitRenderer
  /\ InitLive
  /\ kind = "2d"
  /\ decoded = [data |-> <<>>, sampleRate |-> 60]
  /\ analyserNode = 0
  /\ canvasWidth = 1
  /\ canvasHeight = 1
  /\ colorT = 0
  /\ colorOut = [fn |-> "none"]
  /\ InitScale
  /\ app = "threejs"
  /\ contextTime = 0
  /\ player = NewPlayer
  /\ threeApp = NewSources
  /\ loads = <<>>
  /\ lastOp = [op |-> "none", n |-> 0]

sourcesUnchanged == <<viewVarsButMesh, currentPlayPosition, app, contextTime, player>>

\* the microphone button
MicButton ==
  /\ IF threeApp.micActive
       THEN /\ threeApp' = setMicActive(setStatus(disconnectSources(threeApp),
                                                  "Select a source", 0), FALSE)
            /\ threeMesh' = clearHeights(threeMesh)
            /\ UNCHANGED loads
       ELSE /\ Len(loads) < MaxOverlap
            /\ threeApp' = disablePlayPauseBtn(setMicActive(useMicrophone(threeApp), TRUE))
            /\ loads' = Append(loads, [source |-> "microphone", duration |-> 0,
                                       enable |-> FALSE])
            /\ UNCHANGED threeMesh
  /\ lastOp' = [op |-> "mic", n |-> 0]
  /\ UNCHANGED sourcesUnchanged

\* mediaStream = await getUserMedia(...) resolves
GetUserMediaResolved(i) ==
  /\ loads[i].source = "microphone"
  /\ threeApp' = microphoneGranted(threeApp)
  /\ loads' = RemoveAt(loads, i)
  /\ UNCHANGED <<sourcesUnchanged, lastOp, threeMesh>>

\* the file input and the drop zone: await playFile(file), up to the first await
FileSelected(d) ==
  /\ Len(loads) < MaxOverlap
  /\ threeApp' = disconnectSources(threeApp)
  /\ loads' = Append(loads, [source |-> "file", duration |-> d, enable |-> TRUE])
  /\ lastOp' = [op |-> "file", n |-> d]
  /\ UNCHANGED <<sourcesUnchanged, threeMesh>>

\* a demo button: void playFromUrl(url, label); setMicActive(false);
\* enablePlayPauseBtn(); setActiveDemoButton(button)
DemoSelected(d) ==
  /\ Len(loads) < MaxOverlap
  /\ threeApp' = setActiveDemoButton(
                   enablePlayPauseBtn(setMicActive(disconnectSources(threeApp), FALSE)), d)
  /\ loads' = Append(loads, [source |-> "file", duration |-> d, enable |-> FALSE])
  /\ lastOp' = [op |-> "demo", n |-> d]
  /\ UNCHANGED <<sourcesUnchanged, threeMesh>>

\* decodeAudioData resolves: the rest of playFile / playFromUrl, and for the file input
\* the rest of its handler
TrackDecoded(i) ==
  /\ loads[i].source = "file"
  /\ LET started == trackDecoded(threeApp, loads[i].duration, contextTime)
     IN threeApp' = IF loads[i].enable
                      THEN setMicActive(enablePlayPauseBtn(started), FALSE)
                      ELSE started
  /\ loads' = RemoveAt(loads, i)
  /\ UNCHANGED <<sourcesUnchanged, lastOp, threeMesh>>

\* the play/pause button and the space bar
PlayPauseClicked ==
  /\ threeApp' = togglePlayPause(threeApp, contextTime)
  /\ lastOp' = [op |-> "toggle", n |-> 0]
  /\ UNCHANGED <<sourcesUnchanged, loads, threeMesh>>

\* the stop button
StopButton ==
  /\ threeApp' = setMicActive(
                   disablePlayPauseBtn(
                     [setStatus(disconnectSources(threeApp), "Stopped", 0) EXCEPT
                        !.pauseOffset = 0, !.playStartTime = 0]), FALSE)
  /\ threeMesh' = clearHeights(threeMesh)
  /\ lastOp' = [op |-> "stop", n |-> 0]
  /\ UNCHANGED <<sourcesUnchanged, loads>>

NextSources ==
  \/ MicButton
  \/ \E i \in 1..Len(loads) : GetUserMediaResolved(i)
  \/ \E d \in Durations : FileSelected(d)
  \/ \E d \in Durations : DemoSelected(d)
  \/ \E i \in 1..Len(loads) : TrackDecoded(i)
  \/ PlayPauseClicked
  \/ StopButton

SpecSources == InitSources /\ [][NextSources]_vars

\* C26: in the three.js app the microphone source and a buffer source are never both
\* connected to the analyser, under any interleaving of the mic button, file and demo
\* selection and the completion of getUserMedia, fetch and decodeAudioData.
C26_OneSourceConnected ==
  ~(threeApp.micSource /\ threeApp.bufferSource)

\* the buffer source plays the track d and the status label names it; a source started
\* by startBufferPlayback plays currentBuffer
PlaysAndNames(d) ==
  /\ threeApp.bufferSource
  /\ threeApp.isPlayingBuffer
  /\ threeApp.currentBuffer = d
  /\ threeApp.status = Status("File", d)

\* C27: when two track loads overlap, then once both have finished exactly one buffer
\* source is playing and it plays the track selected last, which is also the one the
\* status label names.  lastOp is the last command of the user, so the track selected
\* last is lastOp.n as long as no other button was pressed since; the microphone is off.
C27_LastSelectedTrackPlays ==
  (loads = <<>> /\ lastOp.op \in {"file", "demo"} /\ ~threeApp.micSource) =>
    PlaysAndNames(lastOp.n)

\* whatever finished last is what plays and what the label names
LastDecodedTrackPlays ==
  [][ \A i \in 1..Len(loads) : TrackDecoded(i) =>
        /\ threeApp'.bufferSource
        /\ threeApp'.currentBuffer = loads[i].duration
        /\ threeApp'.status = Status("File", loads[i].duration) ]_vars

-----------------------------------------------------------------------------
(* The camera animation of the webgl app: rotate, preset and zoom commands *)
(* and the animation-frame callbacks of updateAnimation and                *)
(* updateAnimationWithTranslation.  Angles are in degrees, positions in    *)
(* hundredths, Date.now() in units of animationDuration.                   *)

MaxCommands == 2         \* camera commands in one behaviour
MaxAnimationClock == 2   \* how far Date.now() advances

animationDuration == 1   \* this.animationDuration = 1024 ms, the unit of the clock

\* obj[key] of JavaScript: undefined for a key the object lacks
Property(obj, key) == IF key \in DOMAIN obj THEN obj[key] ELSE JsUndefined

\* a - b, a + b and a * (num / den) of JavaScript numbers: NaN unless both are numbers
JsSub(a, b) ==
  IF a.type = "number" /\ b.type = "number" THEN JsNumber(a.v - b.v) ELSE JsNaN
JsAdd(a, b) ==
  IF a.type = "number" /\ b.type = "number" THEN JsNumber(a.v + b.v) ELSE JsNaN
JsTimes(a, num, den) ==
  IF a.type = "number" THEN JsNumber((a.v * num) \div den) ELSE JsNaN

\* easeOut(n / animationDuration) = 1 - (1 - t)^3 as <<numerator, denominator>>
easeOut(n) ==
  <<Pow(animationDuration, 3) - Pow(animationDuration - n, 3), Pow(animationDuration, 3)>>

\* start + (target - start) * easeProgress
Interpolate(start, target, ease) == JsAdd(start, JsTimes(JsSub(target, start), ease[1], ease[2]))

\* the three interpolated components read from the keys names of the start and target
\* values
Interpolated(a, names, ease) ==
  [axis \in {"x", "y", "z"} |->
     LET key == IF axis = "x" THEN names[1] ELSE IF axis = "y" THEN names[2] ELSE names[3]
     IN Interpolate(Property(a.animationStartValues, key),
                    Property(a.animationTargetValues, key), ease)]

\* Math.min(elapsed / animationDuration, 1) as a number of clock units
Progress(a) == Min(a.now - a.animationStartTime, animationDuration)

\* what both callbacks do after they set the mesh: ask for the next frame or finish
NextFrameOrFinish(a, callback) ==
  IF Progress(a) < animationDuration
    THEN [a EXCEPT !.frames = Append(a.frames, callback)]
    ELSE [a EXCEPT !.animationInProgress = FALSE]

\* updateAnimation()
updateAnimation(a) ==
  IF ~a.animationInProgress THEN a
  ELSE NextFrameOrFinish(
         [a EXCEPT !.mesh.rotation = Interpolated(a, RotationKeys, easeOut(Progress(a)))],
         "updateAnimation")

\* updateAnimationWithTranslation()
updateAnimationWithTranslation(a) ==
  IF ~a.animationInProgress THEN a
  ELSE NextFrameOrFinish(
         IF Property(a.animationStartValues, "xT") # JsUndefined
           THEN [a EXCEPT !.mesh.position =
                            Interpolated(a, TranslationKeys, easeOut(Progress(a)))]
           ELSE [a EXCEPT !.mesh.rotation =
                            Interpolated(a, RotationKeys, easeOut(Progress(a)))],
         "updateAnimationWithTranslation")

\* what resetCamera, setCameraPosition and rotateScene share: animate the rotation from
\* where the mesh is to target
startRotation(a, target) ==
  updateAnimation(
    [a EXCEPT !.animationStartValues =
                [key \in {"xRot", "yRot", "zRot"} |->
                   IF key = "xRot" THEN a.mesh.rotation["x"]
                   ELSE IF key = "yRot" THEN a.mesh.rotation["y"] ELSE a.mesh.rotation["z"]],
              !.animationTargetValues = target,
              !.animationInProgress = TRUE,
              !.animationStartTime = a.now])

\* resetCamera()
resetCamera(a) == startRotation(a, Object3(RotationKeys, <<0 - 45, 0 - 45, 0>>))

\* setCameraPosition(xRot, yRot, zRot)
setCameraPosition(a, xRot, yRot, zRot) ==
  startRotation(a, Object3(RotationKeys, <<xRot, yRot, zRot>>))

\* rotateScene(axis, angle)
rotateScene(a, axis, angle) ==
  startRotation(a,
    [key \in {"xRot", "yRot", "zRot"} |->
       LET from == IF key = "xRot" THEN a.mesh.rotation["x"]
                   ELSE IF key = "yRot" THEN a.mesh.rotation["y"] ELSE a.mesh.rotation["z"]
           turned == (key = "xRot" /\ axis = "x") \/ (key = "yRot" /\ axis = "y")
                       \/ (key = "zRot" /\ axis = "z")
       IN JsAdd(from, JsNumber(IF turned THEN angle ELSE 0))])

\* setZoomX1() ... setZoomX6(): zoom k moves the mesh to (0, -2 k, -2 k)
setZoom(a, k) ==
  updateAnimationWithTranslation(
    [a EXCEPT !.animationStartValues =
                [key \in {"xT", "yT", "zT"} |->
                   IF key = "xT" THEN a.mesh.position["x"]
                   ELSE IF key = "yT" THEN a.mesh.position["y"] ELSE a.mesh.position["z"]],
              !.animationTargetValues =
                Object3(TranslationKeys, <<0, 0 - 200 * k, 0 - 200 * k>>),
              !.currentZoom = k,
              !.animationInProgress = TRUE,
              !.animationStartTime = a.now])

\* the callbacks requestAnimationFrame holds run in the order they were requested; what
\* they request runs in the next frame
RECURSIVE RunCallbacks(_, _)
RunCallbacks(a, callbacks) ==
  IF callbacks = <<>> THEN a
  ELSE RunCallbacks(IF Head(callbacks) = "updateAnimation"
                      THEN updateAnimation(a)
                      ELSE updateAnimationWithTranslation(a),
                    Tail(callbacks))

Angles == {0 - 45, 45}
CameraPresets == {<<0, 0, 0>>, <<0 - 45, 90, 0>>}
Zooms == {1, 2}

animationUnchanged ==
  <<rendererVars_NoTransport, colorVars, scaleVars, transportVars, analyserView,
    renderLoop, threeMesh>>

Command(a) == [a EXCEPT !.commands = a.commands + 1]

ResetCamera ==
  /\ animation.commands < MaxCommands
  /\ animation' = resetCamera(Command(animation))
  /\ UNCHANGED animationUnchanged

SetCameraPosition(preset) ==
  /\ animation.commands < MaxCommands
  /\ animation' = setCameraPosition(Command(animation), preset[1], preset[2], preset[3])
  /\ UNCHANGED animationUnchanged

RotateScene(axis, angle) ==
  /\ animation.commands < MaxCommands
  /\ animation' = rotateScene(Command(animation), axis, angle)
  /\ UNCHANGED animationUnchanged

SetZoom(k) ==
  /\ animation.commands < MaxCommands
  /\ animation' = setZoom(Command(animation), k)
  /\ UNCHANGED animationUnchanged

\* the browser displays a frame
AnimationFrame ==
  /\ animation.frames # <<>>
  /\ animation' = RunCallbacks([animation EXCEPT !.frames = <<>>], animation.frames)
  /\ UNCHANGED animationUnchanged

\* Date.now() advances by one animationDuration
ClockAdvances ==
  /\ animation.now < MaxAnimationClock
  /\ animation' = [animation EXCEPT !.now = animation.now + 1]
  /\ UNCHANGED animationUnchanged

InitAnimation == InitPlayerControls

NextAnimation ==
  \/ ResetCamera
  \/ \E preset \in CameraPresets : SetCameraPosition(preset)
  \/ \E axis \in {"x", "y", "z"}, angle \in Angles : RotateScene(axis, angle)
  \/ \E k \in Zooms : SetZoom(k)
  \/ AnimationFrame
  \/ ClockAdvances

SpecAnimation == InitAnimation /\ [][NextAnimation]_vars

\* a JavaScript value that is a defined, finite number
IsFinite(value) == value.type = "number"

\* C28: in the webgl app every component of the mesh rotation and position is a defined
\* finite number in every reachable state, under any interleaving of rotate, camera
\* preset and zoom commands with the pending animation-frame callbacks of
\* updateAnimation and updateAnimationWithTranslation.
C28_MeshIsFinite ==
  \A axis \in {"x", "y", "z"} :
    /\ IsFinite(animation.mesh.rotation[axis])
    /\ IsFinite(animation.mesh.position[axis])

\* the position is always finite: updateAnimationWithTranslation looks at the keys
PositionIsFinite ==
  \A axis \in {"x", "y", "z"} : IsFinite(animation.mesh.position[axis])

\* a callback of updateAnimation is pending while the shared values hold a translation
RotationCallbackOverTranslation ==
  /\ animation.animationInProgress
  /\ "xT" \in DOMAIN animation.animationStartValues
  /\ \E i \in 1..Len(animation.frames) : animation.frames[i] = "updateAnimation"

-----------------------------------------------------------------------------
(* The render loop of the webgl app: startRender, stopRender and draw,     *)
(* driven by the play/pause button, by loads and by the frames the browser *)
(* displays.  The audio context is running, so player.play() does not wait. *)

MaxDraws == 3    \* draw callbacks requestAnimationFrame holds at once

\* draw(): analyse and ask for the next frame while rendering
draw(r) ==
  IF ~r.isRendering THEN r
  ELSE [r EXCEPT !.draws = r.draws + 1]

\* startRender()
startRender(r) ==
  IF r.isRendering THEN r
  ELSE draw([r EXCEPT !.isRendering = TRUE])

\* stopRender()
stopRender(r) == [r EXCEPT !.isRendering = FALSE]

\* the browser runs the k draw callbacks it holds; the ones they request wait for the
\* next frame
RECURSIVE RunDraws(_, _)
RunDraws(r, k) ==
  IF k = 0 THEN r
  ELSE LET after == draw(r)
       IN RunDraws([after EXCEPT !.analysed = IF r.isRendering THEN r.analysed + 1
                                                                 ELSE r.analysed],
                   k - 1)

\* the render loop after init(): this.startRender()
StartedRenderLoop == startRender(NewRenderLoop)

InitRenderLoop ==
  /\ InitRenderer
  /\ analyserView = NewAnalyserView
  /\ animation = NewAnimation
  /\ renderLoop = StartedRenderLoop
  /\ threeMesh = NewThreeMesh
  /\ kind = "2d"
  /\ decoded = [data |-> <<>>, sampleRate |-> 60]
  /\ analyserNode = 0
  /\ canvasWidth = 1
  /\ canvasHeight = 1
  /\ colorT = 0
  /\ colorOut = [fn |-> "none"]
  /\ InitScale
  /\ InitTransport

renderLoopUnchanged ==
  <<rendererVars_NoTransport, colorVars, scaleVars, app, threeApp, analyserView,
    animation, threeMesh>>

\* the play/pause button: togglePlayPause()
AppTogglePlayPause ==
  /\ renderLoop.draws < MaxDraws
  /\ IF player.isPlaying
       THEN /\ player' = pause(player, contextTime)
            /\ renderLoop' = stopRender(renderLoop)
       ELSE /\ player' = play(player, contextTime)
            /\ renderLoop' = startRender(renderLoop)
  /\ lastOp' = [op |-> "toggle", n |-> 0]
  /\ UNCHANGED <<renderLoopUnchanged, contextTime, loads>>

\* handleFileSelect / loadAndPlayUrl up to the decoding
AppLoad(d) ==
  /\ Len(loads) < MaxLoads
  /\ player' = [player EXCEPT !.pauseTime = 0]
  /\ loads' = Append(loads, [duration |-> d, enable |-> FALSE])
  /\ lastOp' = [op |-> "load", n |-> d]
  /\ UNCHANGED <<renderLoopUnchanged, contextTime, renderLoop>>

\* handleFileSelect / loadAndPlayUrl after the decoding: await this.player.play();
\* this.startRender()
AppLoadDecoded(i) ==
  /\ renderLoop.draws < MaxDraws
  /\ player' = play([player EXCEPT !.buffer = loads[i].duration], contextTime)
  /\ renderLoop' = startRender(renderLoop)
  /\ loads' = RemoveAt(loads, i)
  /\ lastOp' = [op |-> "decoded", n |-> loads[i].duration]
  /\ UNCHANGED <<renderLoopUnchanged, contextTime>>

\* the browser displays a frame: every draw callback it holds runs
DisplayFrame ==
  /\ renderLoop.draws > 0
  /\ renderLoop' = RunDraws([renderLoop EXCEPT !.draws = 0, !.analysed = 0],
                            renderLoop.draws)
  /\ contextTime' = IF contextTime < MaxClock THEN contextTime + 1 ELSE contextTime
  /\ lastOp' = [op |-> "frame", n |-> renderLoop'.analysed]
  /\ UNCHANGED <<renderLoopUnchanged, player, loads>>

NextRenderLoop ==
  \/ AppTogglePlayPause
  \/ \E d \in Durations : AppLoad(d)
  \/ \E i \in 1..Len(loads) : AppLoadDecoded(i)
  \/ DisplayFrame

SpecRenderLoop == InitRenderLoop /\ [][NextRenderLoop]_vars

\* C29: in the webgl app at most one draw callback is pending in requestAnimationFrame
\* at any time, after any sequence of startRender, stopRender and play/pause toggles
\* interleaved with animation frames, so doFrequencyAnalysis runs at most once per
\* displayed frame.
C29_SingleRenderLoop ==
  /\ renderLoop.draws <= 1
  /\ renderLoop.analysed <= 1

\* a toggle that follows a displayed frame finds at most one draw callback and leaves at
\* most one
OneLoopWhenFramesSeparateToggles ==
  [][ (AppTogglePlayPause /\ lastOp.op = "frame" /\ renderLoop.draws <= 1) =>
        renderLoop'.draws <= 1 ]_vars

-----------------------------------------------------------------------------
(* The mesh of main.ts: every rendered frame updateGeometry scrolls the    *)
(* displacement buffer heights by one row and writes the newest row last.  *)
(* Typed arrays are sequences; index i of the source is element i + 1.     *)

Levels == {0, ByteMax}

\* the rows updateGeometry can resample from the analyser's bins into scaledRow: every
\* element is a rounded value between two bytes, so any row of bytes
ScaledRows == [1..ySegments -> Levels]

\* TypedArray.prototype.copyWithin(target, start, end)
copyWithin_Unmoved(array, target, start, end) == array
copyWithin(array, target, start, end) ==
  LET count == Min(end - start, Len(array) - target)
  IN [k \in 1..Len(array) |->
        IF target < k /\ k <= target + count THEN array[start + (k - target)] ELSE array[k]]

\* TypedArray.prototype.set(source, offset)
set(array, source, offset) ==
  [k \in 1..Len(array) |->
     IF offset < k /\ k <= offset + Len(source) THEN source[k - offset] ELSE array[k]]

\* updateGeometry() with scaledRow the row resampled from the analyser
updateGeometry(m, scaledRow) ==
  LET rowLength == ySegments
      lastRowStart == nVertices - rowLength
  IN [m EXCEPT !.heights = set(copyWithin(m.heights, 0, rowLength, nVertices),
                               scaledRow, lastRowStart)]

\* updateScale(mode)
updateScale(m, mode) == clearHeights([m EXCEPT !.scaleMode = mode])

meshUnchanged ==
  <<viewVarsButMesh, currentPlayPosition, app, contextTime, player, threeApp, loads>>

\* animate() -> render(): updateGeometry() unless paused
AnimateFrame(scaledRow) ==
  /\ app = "threejs"
  /\ IF ~threeApp.paused
       THEN threeMesh' = updateGeometry(threeMesh, scaledRow)
       ELSE UNCHANGED threeMesh
  /\ lastOp' = [op |-> "render", n |-> IF threeApp.paused THEN 0 ELSE 1]
  /\ UNCHANGED meshUnchanged

\* the scale buttons
UpdateScale(mode) ==
  /\ app = "threejs"
  /\ threeMesh' = updateScale(threeMesh, mode)
  /\ lastOp' = [op |-> "updateScale", n |-> 0]
  /\ UNCHANGED meshUnchanged

InitMesh == InitTransportSpec /\ app = "threejs"

NextMesh ==
  \/ \E scaledRow \in ScaledRows : AnimateFrame(scaledRow)
  \/ \E mode \in ThreeScaleModes : UpdateScale(mode)
  \/ \E d \in Durations : DemoClicked(d)
  \/ \E i \in 1..Len(loads) : PlayFileDecoded(i)
  \/ TogglePlayPause
  \/ StopClicked

SpecMesh == InitMesh /\ [][NextMesh]_vars

\* row r of the buffer, rows counted from 0
Row(heights, r) == SubSeq(heights, r * ySegments + 1, (r + 1) * ySegments)

\* C30: the height buffer scrolls as a FIFO of rows: after each updateGeometry its length
\* is still nVertices, every row r < timeSamples - 1 holds what row r + 1 held before the
\* call, and the last row holds the newest frame; so a frame moves up one row per update
\* and is gone after timeSamples updates.
C30_HeightsScrollByRows ==
  [][ \A scaledRow \in ScaledRows :
        (AnimateFrame(scaledRow) /\ ~threeApp.paused) =>
          /\ Len(threeMesh'.heights) = nVertices
          /\ \A r \in 0..(timeSamples - 2) :
               Row(threeMesh'.heights, r) = Row(threeMesh.heights, r + 1)
          /\ Row(threeMesh'.heights, timeSamples - 1) = scaledRow ]_vars

\* a loud frame has scrolled to row 0 and silent frames fill the rows after it
C30_Witness ==
  /\ lastOp = [op |-> "render", n |-> 1]
  /\ \A j \in 1..ySegments : Row(threeMesh.heights, 0)[j] = ByteMax
  /\ \A r \in 1..(timeSamples - 1) : \A j \in 1..ySegments : Row(threeMesh.heights, r)[j] = 0

====
